---- MODULE Spec2Model ----
(***************************************************************************)
(* FanSafe: the listing-analysis request path.                             *)
(*                                                                         *)
(*   - getRiskLevel / getRiskLevelFromScore  (score -> low|medium|high)    *)
(*   - detectPlatform                        (URL -> twitter|instagram|..) *)
(*   - analyzeListingRequestSchema           (request validation)          *)
(*   - listingAnalysisOutputSchema           (service output validation)   *)
(*   - analyzeListing, analyzeSeller, analyzeImage (one call to the service)*)
(*   - extractIpAddress                      (client IP from the headers)  *)
(*   - GET / PUT / DELETE                    (405 handlers of the route)   *)
(*   - sellerAnalysisOutputSchema, listingAnalysisJsonSchema,              *)
(*     analysisResponseSchema                (the other schemas)           *)
(*   - buildUserMessage, buildSellerAnalysisMessage (prompt assembly)      *)
(*   - getOpenAIClient                       (the client singleton)        *)
(*   - ListingAnalysisForm                   (submit / reset state hooks)  *)
(*   - POST /api/analyze/listing             (validate, analyse, store)    *)
(*                                                                         *)
(* Strings that the code inspects character by character (URLs) are        *)
(* sequences of one-character strings; strings the code only measures or   *)
(* passes along are sequences of characters too, or opaque message strings.*)
(***************************************************************************)
EXTENDS Integers, Sequences, FiniteSets, TLC

VARIABLES
    score,            \* input of the risk classifier bench
    riskLevel,        \* getRiskLevel(score), "none" before the call
    riskLevelFromScore, \* getRiskLevelFromScore(score), "none" before the call
    url,              \* input of the platform detector bench
    platform,         \* detectPlatform(url), "none" before the call
    caseVariant,      \* url with the letter case changed
    variantPlatform,  \* detectPlatform(caseVariant), "none" before the call
    callArgs,         \* argument of the function under test in the other benches
    returned,         \* what that function has done and returned so far
    apiKey,           \* process.env.OPENAI_API_KEY is set
    reqs,             \* per request: position in POST, inputs, locals, response
    analyses,         \* rows of table analyses, in insertion order
    nextId            \* next AUTOINCREMENT id of table analyses

benchVars == <<callArgs, returned>>
pureVars == <<score, riskLevel, riskLevelFromScore,
              url, platform, caseVariant, variantPlatform, callArgs, returned>>
routeVars == <<apiKey, reqs, analyses, nextId>>
vars == <<score, riskLevel, riskLevelFromScore,
          url, platform, caseVariant, variantPlatform, callArgs, returned,
          apiKey, reqs, analyses, nextId>>

(***************************************************************************)
(* Bounds                                                                  *)
(***************************************************************************)
MaxFrags == 3
NumRequests == 2

(***************************************************************************)
(* Program constants                                                       *)
(***************************************************************************)
MinRiskScore == 0
MaxRiskScore == 100
MediumFrom == 30
HighFrom == 70

(***************************************************************************)
(* Risk classifier                                                         *)
(***************************************************************************)
getRiskLevel_OffByOne(s) ==
    IF s <= MediumFrom THEN "low"
    ELSE IF s < HighFrom THEN "medium"
    ELSE "high"

getRiskLevel(s) ==
    IF s < MediumFrom THEN "low"
    ELSE IF s < HighFrom THEN "medium"
    ELSE "high"

getRiskLevelFromScore(s) ==
    IF s < MediumFrom THEN "low"
    ELSE IF s < HighFrom THEN "medium"
    ELSE "high"

(***************************************************************************)
(* Characters and case conversion                                          *)
(***************************************************************************)
Lower == <<"a","b","c","d","e","f","g","h","i","j","k","l","m",
           "n","o","p","q","r","s","t","u","v","w","x","y","z">>
Upper == <<"A","B","C","D","E","F","G","H","I","J","K","L","M",
           "N","O","P","Q","R","S","T","U","V","W","X","Y","Z">>

IndexIn(c, alphabet) ==
    IF \E i \in 1..Len(alphabet) : alphabet[i] = c
    THEN CHOOSE i \in 1..Len(alphabet) : alphabet[i] = c
    ELSE 0

toLowerChar(c) == IF IndexIn(c, Upper) > 0 THEN Lower[IndexIn(c, Upper)] ELSE c
toUpperChar(c) == IF IndexIn(c, Lower) > 0 THEN Upper[IndexIn(c, Lower)] ELSE c
swapCaseChar(c) ==
    IF IndexIn(c, Upper) > 0 THEN Lower[IndexIn(c, Upper)]
    ELSE IF IndexIn(c, Lower) > 0 THEN Upper[IndexIn(c, Lower)]
    ELSE c

toLowerCase(s) == [i \in 1..Len(s) |-> toLowerChar(s[i])]
toUpperCase(s) == [i \in 1..Len(s) |-> toUpperChar(s[i])]
swapCase(s) == [i \in 1..Len(s) |-> swapCaseChar(s[i])]

\* String.prototype.includes
includes(s, needle) ==
    \E i \in 0..(Len(s) - Len(needle)) : SubSeq(s, i + 1, i + Len(needle)) = needle

TwitterCom == <<"t","w","i","t","t","e","r",".","c","o","m">>
XCom == <<"x",".","c","o","m">>
InstagramCom == <<"i","n","s","t","a","g","r","a","m",".","c","o","m">>

(***************************************************************************)
(* Platform detector                                                       *)
(***************************************************************************)
detectPlatform_CaseSensitive(u) ==
    IF includes(u, TwitterCom) \/ includes(u, XCom) THEN "twitter"
    ELSE IF includes(u, InstagramCom) THEN "instagram"
    ELSE "unknown"

detectPlatform(u) ==
    LET urlLower == toLowerCase(u) IN
    IF includes(urlLower, TwitterCom) \/ includes(urlLower, XCom) THEN "twitter"
    ELSE IF includes(urlLower, InstagramCom) THEN "instagram"
    ELSE "unknown"

(***************************************************************************)
(* URL inputs: concatenations of at most MaxFrags fragments                *)
(***************************************************************************)
Fragments == {
    <<"h","t","t","p","s",":","/","/">>,
    TwitterCom,
    <<"T","W","I","T","T","E","R",".","C","O","M">>,
    XCom,
    <<"X",".","C","o","m">>,
    InstagramCom,
    <<"I","n","s","t","a","G","R","A","M",".","c","o","m">>,
    <<"e","x","a","m","p","l","e",".","o","r","g">>,
    <<"b","o">>,
    <<"/","u">> }

RECURSIVE Concat(_)
Concat(fs) == IF fs = <<>> THEN <<>> ELSE Head(fs) \o Concat(Tail(fs))

UrlInputs ==
    { Concat(fs) : fs \in UNION { [1..n -> Fragments] : n \in 1..MaxFrags } }

CaseChanges == {"upper", "lower", "swap"}
Recase(kind, s) ==
    CASE kind = "upper" -> toUpperCase(s)
      [] kind = "lower" -> toLowerCase(s)
      [] OTHER -> swapCase(s)

(***************************************************************************)
(* Benches for the pure functions                                          *)
(***************************************************************************)
NotCalled == [pc |-> "idle"]

BenchIdle ==
    /\ callArgs = <<>>
    /\ returned = NotCalled

RouteIdle ==
    /\ apiKey = TRUE
    /\ reqs = <<>>
    /\ analyses = <<>>
    /\ nextId = 1

InitRisk ==
    /\ score \in MinRiskScore..MaxRiskScore
    /\ riskLevel = "none"
    /\ riskLevelFromScore = "none"
    /\ url = <<>>
    /\ platform = "none"
    /\ caseVariant = <<>>
    /\ variantPlatform = "none"
    /\ BenchIdle
    /\ RouteIdle

CallGetRiskLevel ==
    /\ riskLevel = "none"
    /\ riskLevel' = getRiskLevel(score)
    /\ UNCHANGED <<score, riskLevelFromScore, url, platform, caseVariant, variantPlatform>>
    /\ UNCHANGED routeVars
    /\ UNCHANGED benchVars

CallGetRiskLevelFromScore ==
    /\ riskLevelFromScore = "none"
    /\ riskLevelFromScore' = getRiskLevelFromScore(score)
    /\ UNCHANGED <<score, riskLevel, url, platform, caseVariant, variantPlatform>>
    /\ UNCHANGED routeVars
    /\ UNCHANGED benchVars

NextRisk == CallGetRiskLevel \/ CallGetRiskLevelFromScore

SpecRisk == InitRisk /\ [][NextRisk]_vars

InitPlatform ==
    /\ score = 0
    /\ riskLevel = "none"
    /\ riskLevelFromScore = "none"
    /\ url \in UrlInputs
    /\ platform = "none"
    /\ caseVariant = <<>>
    /\ variantPlatform = "none"
    /\ BenchIdle
    /\ RouteIdle

CallDetectPlatform ==
    /\ platform = "none"
    /\ platform' = detectPlatform(url)
    /\ UNCHANGED <<score, riskLevel, riskLevelFromScore, url, caseVariant, variantPlatform>>
    /\ UNCHANGED routeVars
    /\ UNCHANGED benchVars

CallDetectPlatformRecased ==
    /\ variantPlatform = "none"
    /\ \E kind \in CaseChanges :
        /\ caseVariant' = Recase(kind, url)
        /\ variantPlatform' = detectPlatform(Recase(kind, url))
    /\ UNCHANGED <<score, riskLevel, riskLevelFromScore, url, platform>>
    /\ UNCHANGED routeVars
    /\ UNCHANGED benchVars

NextPlatform == CallDetectPlatform \/ CallDetectPlatformRecased

SpecPlatform == InitPlatform /\ [][NextPlatform]_vars

(***************************************************************************)
(* C1: for every integer score 0..100, getRiskLevel and                    *)
(* getRiskLevelFromScore return low below 30, medium from 30 to 69 and     *)
(* high from 70; 0 and 29 are low, 30 and 69 medium, 70 and 100 high.      *)
(***************************************************************************)
ExpectedLevel ==
    IF score \in 0..29 THEN "low"
    ELSE IF score \in 30..69 THEN "medium"
    ELSE IF score \in 70..100 THEN "high"
    ELSE "none"

C1_RiskLevelBuckets ==
    /\ riskLevel # "none" => riskLevel = ExpectedLevel
    /\ riskLevelFromScore # "none" => riskLevelFromScore = ExpectedLevel
    /\ (riskLevel # "none" /\ score \in {0, 29}) => riskLevel = "low"
    /\ (riskLevel # "none" /\ score \in {30, 69}) => riskLevel = "medium"
    /\ (riskLevel # "none" /\ score \in {70, 100}) => riskLevel = "high"

C1_Witness ==
    /\ score = 30
    /\ riskLevel = "medium"
    /\ riskLevelFromScore = "medium"

(***************************************************************************)
(* C2: detectPlatform(u) is twitter if the lower-cased u contains          *)
(* "twitter.com" or "x.com", otherwise instagram if it contains            *)
(* "instagram.com", otherwise unknown; a URL with both a twitter alias and *)
(* "instagram.com" is twitter; changing the letter case of u does not      *)
(* change the result.                                                      *)
(***************************************************************************)
HasTwitterAlias(u) ==
    \/ includes(toLowerCase(u), TwitterCom)
    \/ includes(toLowerCase(u), XCom)

HasInstagram(u) == includes(toLowerCase(u), InstagramCom)

FollowsPlatformRule(u, p) ==
    /\ HasTwitterAlias(u) => p = "twitter"
    /\ (~HasTwitterAlias(u) /\ HasInstagram(u)) => p = "instagram"
    /\ (~HasTwitterAlias(u) /\ ~HasInstagram(u)) => p = "unknown"

C2_DetectPlatformRule ==
    /\ platform # "none" => FollowsPlatformRule(url, platform)
    /\ variantPlatform # "none" =>
        /\ toLowerCase(caseVariant) = toLowerCase(url)
        /\ FollowsPlatformRule(url, variantPlatform)
    /\ (platform # "none" /\ variantPlatform # "none") =>
        variantPlatform = platform

C2_Witness ==
    /\ HasTwitterAlias(url)
    /\ HasInstagram(url)
    /\ url # toLowerCase(url)
    /\ platform = "twitter"
    /\ caseVariant # url
    /\ variantPlatform = "twitter"

(***************************************************************************)
(* Values                                                                  *)
(*   optional value: <<>> when absent (undefined / null header), <<v>>     *)
(*   JSON value of the service: kind "undefined" | "null" | "object"       *)
(***************************************************************************)
None == <<>>
Some(v) == <<v>>
IsSome(o) == o # <<>>

Str(n) == [i \in 1..n |-> "a"]

HttpsScheme == <<"h","t","t","p","s",":","/","/">>

startsWith(s, prefix) ==
    Len(s) >= Len(prefix) /\ SubSeq(s, 1, Len(prefix)) = prefix

(***************************************************************************)
(* analyzeListingRequestSchema                                             *)
(***************************************************************************)
MinTextLen == 1
MaxTextLen == 10000

\* z.string().url(): the string parses as an absolute URL
isUrl(s) == startsWith(s, HttpsScheme) /\ Len(s) > Len(HttpsScheme)

Issue(path, code) == [path |-> path, code |-> code]

urlIssues(body) ==
    IF isUrl(body.url) THEN <<>> ELSE <<Issue("url", "invalid_string")>>

\* the upper limit taken as exclusive
textIssues_ExclusiveMax(body) ==
    (IF Len(body.text) < MinTextLen THEN <<Issue("text", "too_small")>> ELSE <<>>)
    \o (IF Len(body.text) >= MaxTextLen THEN <<Issue("text", "too_big")>> ELSE <<>>)

textIssues(body) ==
    (IF Len(body.text) < MinTextLen THEN <<Issue("text", "too_small")>> ELSE <<>>)
    \o (IF Len(body.text) > MaxTextLen THEN <<Issue("text", "too_big")>> ELSE <<>>)

RECURSIVE imageIssues(_)
imageIssues(images) ==
    IF images = <<>> THEN <<>>
    ELSE (IF isUrl(Head(images)) THEN <<>> ELSE <<Issue("images", "invalid_string")>>)
         \o imageIssues(Tail(images))

priceIssues_AllowZero(body) ==
    IF IsSome(body.price) /\ body.price[1] < 0
    THEN <<Issue("price", "too_small")>> ELSE <<>>

priceIssues(body) ==
    IF IsSome(body.price) /\ ~(body.price[1] > 0)
    THEN <<Issue("price", "too_small")>> ELSE <<>>

\* analyzeListingRequestSchema.parse(body): the issues of the ZodError it
\* throws, <<>> when it returns
requestIssues(body) ==
    urlIssues(body)
    \o textIssues(body)
    \o (IF IsSome(body.images) THEN imageIssues(body.images[1]) ELSE <<>>)
    \o priceIssues(body)

\* the parsed request: images defaults to []
validatedData(body) ==
    [url |-> body.url,
     text |-> body.text,
     images |-> IF IsSome(body.images) THEN body.images[1] ELSE <<>>,
     price |-> body.price,
     itemName |-> body.itemName]

(***************************************************************************)
(* listingAnalysisOutputSchema                                             *)
(***************************************************************************)
MinWarnings == 1
MinRecommendations == 1
MinReasoningLen == 50

\* JSON values, tagged with their type; an absent key reads as Undefined
Undefined == [kind |-> "undefined"]
Null == [kind |-> "null"]
Text(t) == [kind |-> "string", value |-> t]
\* the number n + tenths/10
Num(n, tenths) == [kind |-> "number", floor |-> n, tenths |-> tenths]
Bool(b) == [kind |-> "boolean", value |-> b]
List(items) == [kind |-> "array", items |-> items]

\* z.array(z.string())
stringArraySchema(j) ==
    /\ j.kind = "array"
    /\ \A i \in 1..Len(j.items) : j.items[i].kind = "string"

\* z.object({ isPriceNormal: z.boolean(), priceComment: z.string() })
priceAnalysisSchema(j) ==
    /\ j.kind = "object"
    /\ j.isPriceNormal.kind = "boolean"
    /\ j.priceComment.kind = "string"

\* the schema without the .optional() of its last two keys read as
\* .nullable(): null passes for them
listingAnalysisOutputSchema_Nullable(j) ==
    /\ j.kind = "object"
    /\ j.riskScore.kind = "number"
    /\ j.riskScore.tenths = 0
    /\ j.riskScore.floor >= MinRiskScore
    /\ j.riskScore.floor <= MaxRiskScore
    /\ stringArraySchema(j.detectedPatterns)
    /\ stringArraySchema(j.warnings)
    /\ Len(j.warnings.items) >= MinWarnings
    /\ stringArraySchema(j.recommendations)
    /\ Len(j.recommendations.items) >= MinRecommendations
    /\ j.reasoning.kind = "string"
    /\ Len(j.reasoning.value) >= MinReasoningLen
    /\ j.priceAnalysis.kind \in {"undefined", "null"} \/ priceAnalysisSchema(j.priceAnalysis)
    /\ j.translatedText.kind \in {"undefined", "null", "string"}

\* listingAnalysisOutputSchema.safeParse(j).success
listingAnalysisOutputSchema(j) ==
    /\ j.kind = "object"
    /\ j.riskScore.kind = "number"
    /\ j.riskScore.tenths = 0
    /\ j.riskScore.floor >= MinRiskScore
    /\ j.riskScore.floor <= MaxRiskScore
    /\ stringArraySchema(j.detectedPatterns)
    /\ stringArraySchema(j.warnings)
    /\ Len(j.warnings.items) >= MinWarnings
    /\ stringArraySchema(j.recommendations)
    /\ Len(j.recommendations.items) >= MinRecommendations
    /\ j.reasoning.kind = "string"
    /\ Len(j.reasoning.value) >= MinReasoningLen
    /\ j.priceAnalysis.kind = "undefined" \/ priceAnalysisSchema(j.priceAnalysis)
    /\ j.translatedText.kind \in {"undefined", "string"}

\* the tagged JSON value of an analysis whose keys have the declared types
asJson(v) ==
    IF v.kind # "object" THEN [kind |-> v.kind]
    ELSE [kind |-> "object",
          riskScore |-> Num(v.riskScore, 0),
          detectedPatterns |->
              List([i \in 1..Len(v.detectedPatterns) |-> Text(v.detectedPatterns[i])]),
          warnings |-> List([i \in 1..Len(v.warnings) |-> Text(v.warnings[i])]),
          recommendations |->
              List([i \in 1..Len(v.recommendations) |-> Text(v.recommendations[i])]),
          reasoning |-> Text(v.reasoning),
          priceAnalysis |->
              IF v.priceAnalysis.kind = "object"
              THEN [kind |-> "object",
                    isPriceNormal |-> Bool(v.priceAnalysis.isPriceNormal),
                    priceComment |-> Text(v.priceAnalysis.priceComment)]
              ELSE v.priceAnalysis,
          translatedText |-> v.translatedText]

\* listingAnalysisOutputSchema.safeParse(v).success
outputSchemaAccepts(v) == listingAnalysisOutputSchema(asJson(v))

(***************************************************************************)
(* Values the external service can answer with                             *)
(***************************************************************************)
PriceAnalysis(normal) ==
    [kind |-> "object", isPriceNormal |-> normal, priceComment |-> "comment"]

Analysis(s, patterns, warnings, recommendations, reasoning, price, translated) ==
    [kind |-> "object",
     riskScore |-> s,
     detectedPatterns |-> patterns,
     warnings |-> warnings,
     recommendations |-> recommendations,
     reasoning |-> reasoning,
     priceAnalysis |-> price,
     translatedText |-> translated]

NoAnalysis ==
    [kind |-> "undefined",
     riskScore |-> 0,
     detectedPatterns |-> <<>>,
     warnings |-> <<>>,
     recommendations |-> <<>>,
     reasoning |-> <<>>,
     priceAnalysis |-> Undefined,
     translatedText |-> Undefined]

NullAnalysis == [NoAnalysis EXCEPT !.kind = "null"]

Payloads == {
    \* conforms to both schemas
    Analysis(85, <<"urgent_language", "prepayment_demand">>, <<"w1", "w2">>,
             <<"r1", "r2">>, Str(60), PriceAnalysis(FALSE), Undefined),
    \* conforms to listingAnalysisJsonSchema (nulls present), not to the zod schema
    Analysis(29, <<>>, <<"w1">>, <<"r1">>, Str(50), Null, Null),
    \* no warnings, short reasoning
    Analysis(70, <<>>, <<>>, <<"r1">>, Str(49), Undefined, Text("t")),
    \* the JSON text "null"
    NullAnalysis }

\* what openai.chat.completions.create settles with
Completions ==
    { [kind |-> "throwError", message |-> m, json |-> FALSE, value |-> NoAnalysis]
        : m \in {"", "API rate limit exceeded"} }
    \cup { [kind |-> "throwOther", message |-> "", json |-> FALSE, value |-> NoAnalysis] }
    \cup { [kind |-> "noContent", message |-> "", json |-> FALSE, value |-> NoAnalysis] }
    \cup { [kind |-> "content", message |-> "", json |-> FALSE, value |-> NoAnalysis] }
    \cup { [kind |-> "content", message |-> "", json |-> TRUE, value |-> p]
        : p \in Payloads }

(***************************************************************************)
(* analyzeListing                                                          *)
(***************************************************************************)
Result(success, data, error) ==
    [success |-> success, data |-> data, error |-> error]

NoResult == Result(FALSE, NoAnalysis, None)

NotConfiguredResult == Result(FALSE, NoAnalysis, Some("OpenAI API key is not configured"))

JsonSyntaxMessage == "Unexpected token in JSON"

\* a service for which a payload that fails validation is a failure
afterCompletion_Strict(c) ==
    CASE c.kind = "throwError" -> Result(FALSE, NoAnalysis, Some(c.message))
      [] c.kind = "throwOther" -> Result(FALSE, NoAnalysis, Some("Unknown error occurred"))
      [] c.kind = "noContent" ->
            Result(FALSE, NoAnalysis, Some("No response content from OpenAI"))
      [] c.kind = "content" /\ ~c.json ->
            Result(FALSE, NoAnalysis, Some(JsonSyntaxMessage))
      [] OTHER ->
            IF ~outputSchemaAccepts(c.value)
            THEN Result(FALSE, NoAnalysis, Some("Validation failed"))
            ELSE Result(TRUE, c.value, None)

\* analyzeListing from the settling of the create call to its return
afterCompletion(c) ==
    CASE c.kind = "throwError" -> Result(FALSE, NoAnalysis, Some(c.message))
      [] c.kind = "throwOther" -> Result(FALSE, NoAnalysis, Some("Unknown error occurred"))
      [] c.kind = "noContent" ->
            Result(FALSE, NoAnalysis, Some("No response content from OpenAI"))
      [] c.kind = "content" /\ ~c.json ->
            Result(FALSE, NoAnalysis, Some(JsonSyntaxMessage))
      [] OTHER ->
            \* JSON.parse(content), then safeParse: on failure the parsed value is
            \* returned as it is, on success the value safeParse produced
            IF ~outputSchemaAccepts(c.value)
            THEN Result(TRUE, c.value, None)
            ELSE Result(TRUE, c.value, None)

(***************************************************************************)
(* Bench for listingAnalysisOutputSchema                                   *)
(***************************************************************************)
ClassifiersIdle ==
    /\ score = 0
    /\ riskLevel = "none"
    /\ riskLevelFromScore = "none"
    /\ url = <<>>
    /\ platform = "none"
    /\ caseVariant = <<>>
    /\ variantPlatform = "none"

\* values handed to safeParse: every key varies over in-range, out-of-range,
\* wrongly typed and absent values
OutputValues ==
    { [kind |-> "object",
       riskScore |-> s,
       detectedPatterns |-> p,
       warnings |-> w,
       recommendations |-> rc,
       reasoning |-> Text(rs),
       priceAnalysis |-> pa,
       translatedText |-> tt] :
        s \in { Num(0 - 1, 0), Num(MinRiskScore, 0), Num(MaxRiskScore, 0),
                Num(MaxRiskScore + 1, 0), Num(50, 5), Text("high"), Undefined },
        p \in { List(<<>>), List(<<Text("urgent_language")>>), List(<<Num(1, 0)>>),
                Undefined },
        w \in { List(<<>>), List(<<Text("w1")>>) },
        rc \in { List(<<>>), List(<<Text("r1")>>) },
        rs \in { Str(MinReasoningLen - 1), Str(MinReasoningLen) },
        pa \in { Undefined, Null,
                 [kind |-> "object", isPriceNormal |-> Bool(FALSE),
                  priceComment |-> Text("comment")],
                 [kind |-> "object", isPriceNormal |-> Bool(TRUE),
                  priceComment |-> Undefined],
                 [kind |-> "object", isPriceNormal |-> Undefined,
                  priceComment |-> Text("comment")] },
        tt \in { Undefined, Null, Text("t") } }

InitOutputSchema ==
    /\ ClassifiersIdle
    /\ RouteIdle
    /\ callArgs \in OutputValues
    /\ returned = NotCalled

\* listingAnalysisOutputSchema.safeParse(callArgs)
CallOutputSchema ==
    /\ returned = NotCalled
    /\ returned' = [pc |-> "returned",
                    fn |-> "listingAnalysisOutputSchema",
                    success |-> listingAnalysisOutputSchema(callArgs)]
    /\ UNCHANGED <<score, riskLevel, riskLevelFromScore,
                   url, platform, caseVariant, variantPlatform, callArgs>>
    /\ UNCHANGED routeVars

NextOutputSchema == CallOutputSchema

SpecOutputSchema == InitOutputSchema /\ [][NextOutputSchema]_vars

(***************************************************************************)
(* Bench for analyzeListingRequestSchema.  Prices are in hundredths: 1 is  *)
(* the price 0.01.                                                         *)
(***************************************************************************)
ExampleUrl == HttpsScheme \o <<"e", "x", ".", "c", "o", "/", "i">>
PlainText == <<"n", "o", "t", "-", "a", "-", "u", "r", "l">>

RequestBodies ==
    { [url |-> u, text |-> t, images |-> im, price |-> p, itemName |-> n] :
        u \in { ExampleUrl, PlainText, HttpsScheme, <<>> },
        t \in { <<>>, Str(MinTextLen), Str(MaxTextLen), Str(MaxTextLen + 1) },
        im \in { None, Some(<<>>), Some(<<ExampleUrl>>),
                 Some(<<ExampleUrl, PlainText>>) },
        p \in { None, Some(0 - 100), Some(0), Some(1), Some(500000) },
        n \in { None, Some("card") } }

InitRequestSchema ==
    /\ ClassifiersIdle
    /\ RouteIdle
    /\ callArgs \in RequestBodies
    /\ returned = NotCalled

\* analyzeListingRequestSchema.safeParse(callArgs)
CallRequestSchema ==
    /\ returned = NotCalled
    /\ returned' = [pc |-> "returned",
                    fn |-> "analyzeListingRequestSchema",
                    success |-> requestIssues(callArgs) = <<>>,
                    data |-> IF requestIssues(callArgs) = <<>>
                             THEN Some(validatedData(callArgs)) ELSE None]
    /\ UNCHANGED <<score, riskLevel, riskLevelFromScore,
                   url, platform, caseVariant, variantPlatform, callArgs>>
    /\ UNCHANGED routeVars

NextRequestSchema == CallRequestSchema

SpecRequestSchema == InitRequestSchema /\ [][NextRequestSchema]_vars

(***************************************************************************)
(* The analysis services: analyzeListing in its two versions (the one      *)
(* calling chat.completions.create, the one calling                        *)
(* beta.chat.completions.parse), analyzeSeller and analyzeImage            *)
(***************************************************************************)
Services == {"analyzeListing", "analyzeListing.parse", "analyzeSeller", "analyzeImage"}

\* what the external call settles with: an exception, or a message with its
\* raw content and, for the parse call, its parsed value (null when none)
ServiceCompletions ==
    { [kind |-> c.kind, message |-> c.message, json |-> c.json,
       value |-> c.value, parsed |-> NullAnalysis] : c \in Completions }
    \cup { [kind |-> c.kind, message |-> c.message, json |-> c.json,
            value |-> c.value, parsed |-> c.value] :
            c \in { d \in Completions : d.kind = "content" /\ d.json
                                        /\ outputSchemaAccepts(d.value) } }

NoCompletion ==
    [kind |-> "none", message |-> "", json |-> FALSE,
     value |-> NoAnalysis, parsed |-> NoAnalysis]

FailedToParse(service) ==
    CASE service = "analyzeSeller" -> "Failed to parse seller analysis result"
      [] service = "analyzeImage" -> "Failed to parse image analysis result"
      [] OTHER -> "Failed to parse analysis result"

\* a parse-based service from the settling of the parse call to its return
afterParse(service, c) ==
    CASE c.kind = "throwError" -> Result(FALSE, NoAnalysis, Some(c.message))
      [] c.kind = "throwOther" -> Result(FALSE, NoAnalysis, Some("Unknown error occurred"))
      [] OTHER ->
            IF c.parsed.kind # "object"
            THEN Result(FALSE, NoAnalysis, Some(FailedToParse(service)))
            ELSE Result(TRUE, c.parsed, None)

serviceResult(service, c) ==
    IF service = "analyzeListing" THEN afterCompletion(c) ELSE afterParse(service, c)

\* without the try/catch an exception of the call rejects the promise
settle_NoCatch(service, c) ==
    IF c.kind \in {"throwError", "throwOther"}
    THEN [settled |-> "rejected", result |-> NoResult]
    ELSE [settled |-> "resolved", result |-> serviceResult(service, c)]

\* how the promise of the service settles: the catch block turns every
\* exception into a result
settle(service, c) ==
    [settled |-> "resolved", result |-> serviceResult(service, c)]

(***************************************************************************)
(* extractIpAddress                                                        *)
(***************************************************************************)
\* s.split(',')[0]
firstSegment(s) ==
    IF \E i \in 1..Len(s) : s[i] = ","
    THEN SubSeq(s, 1, (CHOOSE i \in 1..Len(s) :
                          s[i] = "," /\ \A j \in 1..(i - 1) : s[j] # ",") - 1)
    ELSE s

RECURSIVE trimStart(_)
trimStart(s) == IF s # <<>> /\ Head(s) = " " THEN trimStart(Tail(s)) ELSE s

RECURSIVE trimEnd(_)
trimEnd(s) ==
    IF s # <<>> /\ s[Len(s)] = " " THEN trimEnd(SubSeq(s, 1, Len(s) - 1)) ELSE s

trim(s) == trimEnd(trimStart(s))

\* a header value is truthy when the header is present and not empty
truthyHeader(h) == IsSome(h) /\ h[1] # <<>>

\* a present x-forwarded-for always wins, empty or not
extractIpAddress_PresentWins(headers) ==
    IF IsSome(headers.forwardedFor)
    THEN Some(trim(firstSegment(headers.forwardedFor[1])))
    ELSE IF truthyHeader(headers.realIp) THEN Some(headers.realIp[1])
    ELSE IF truthyHeader(headers.vercelIp) THEN Some(headers.vercelIp[1])
    ELSE None

extractIpAddress(headers) ==
    IF truthyHeader(headers.forwardedFor)
    THEN Some(trim(firstSegment(headers.forwardedFor[1])))
    ELSE IF truthyHeader(headers.realIp) THEN Some(headers.realIp[1])
    ELSE IF truthyHeader(headers.vercelIp) THEN Some(headers.vercelIp[1])
    ELSE None

(***************************************************************************)
(* Requests                                                                *)
(***************************************************************************)
Requests == 1..NumRequests

Body(u, text, images, price, itemName) ==
    [url |-> u, text |-> text, images |-> images, price |-> price,
     itemName |-> itemName]

Headers(forwardedFor, realIp, vercelIp) ==
    [forwardedFor |-> forwardedFor, realIp |-> realIp, vercelIp |-> vercelIp]

NoHeaders == Headers(None, None, None)
NoBody == Body(<<>>, <<>>, None, None, None)

TwitterUrl == HttpsScheme \o TwitterCom \o <<"/","u">>
InstagramUrl == HttpsScheme \o <<"X",".","C","o","m">> \o <<"/">> \o InstagramCom
NotAUrl == <<"n","o","t","-","a","-","u","r","l">>
Ip1 == <<"1",".","2",".","3",".","4">>
Ip2 == <<"5",".","6",".","7",".","8">>

\* the requests clients send. json is how request.json() settles: "ok" with
\* the body, "syntaxError" when the text is not JSON, "otherError" when the
\* body cannot be read
RequestInputs == {
    [json |-> "syntaxError", body |-> NoBody, headers |-> NoHeaders],
    [json |-> "otherError", body |-> NoBody, headers |-> NoHeaders],
    [json |-> "ok", body |-> Body(TwitterUrl, Str(5), None, None, None),
     headers |-> NoHeaders],
    [json |-> "ok",
     body |-> Body(InstagramUrl, Str(7), Some(<<TwitterUrl>>), Some(3000), Some("card")),
     headers |-> Headers(Some(<<" ">> \o Ip1 \o <<" ", ",">> \o Ip2), Some(Ip2), None)],
    [json |-> "ok", body |-> Body(NotAUrl, Str(5), None, None, None),
     headers |-> NoHeaders],
    [json |-> "ok",
     body |-> Body(NotAUrl, <<>>, Some(<<TwitterUrl, NotAUrl>>), Some(0), None),
     headers |-> Headers(None, Some(Ip1), None)] }

Ip3 == <<"9",".","9",".","9",".","9">>

\* a JSON body carrying a key the request schema does not declare
WithExtra(body) ==
    [url |-> body.url, text |-> body.text, images |-> body.images,
     price |-> body.price, itemName |-> body.itemName, debug |-> TRUE]

\* what request.headers.get(name) can return: null, the empty string, a value
HeaderInputs ==
    { Headers(f, ri, v) :
        f \in { None, Some(<<>>), Some(Ip1),
                Some(Ip1 \o <<" ", ",", " ">> \o Ip2) },
        ri \in { None, Some(<<>>), Some(Ip2) },
        v \in { None, Some(<<>>), Some(Ip3) } }

BodyInputs ==
    { Body(TwitterUrl, Str(5), None, None, None),
      WithExtra(Body(TwitterUrl, Str(5), None, None, None)),
      WithExtra(Body(NotAUrl, Str(5), None, None, None)) }

\* requests of one client, over every combination of the three headers
WideInputs ==
    RequestInputs
    \cup { [json |-> "ok", body |-> b, headers |-> h] :
            b \in BodyInputs, h \in HeaderInputs }

NoInput == [json |-> "ok", body |-> NoBody, headers |-> NoHeaders]

ResponseData_WarningsSlip(data, level) ==
    [kind |-> "object",
     riskScore |-> data.riskScore,
     riskLevel |-> level,
     warnings |-> data.recommendations,
     recommendations |-> data.recommendations,
     reasoning |-> data.reasoning,
     detectedPatterns |-> data.detectedPatterns,
     priceAnalysis |-> data.priceAnalysis]

ResponseData(data, level) ==
    [kind |-> "object",
     riskScore |-> data.riskScore,
     riskLevel |-> level,
     warnings |-> data.warnings,
     recommendations |-> data.recommendations,
     reasoning |-> data.reasoning,
     detectedPatterns |-> data.detectedPatterns,
     priceAnalysis |-> data.priceAnalysis]

NoResponseData == [ResponseData(NoAnalysis, "none") EXCEPT !.kind = "undefined"]

\* NextResponse.json(body, {status})
Response(status, success, error, details, data) ==
    [status |-> status, success |-> success, error |-> error,
     details |-> details, data |-> data]

NoResponse == Response(0, FALSE, None, None, NoResponseData)

ErrorResponse(status, message) ==
    Response(status, FALSE, Some(message), None, NoResponseData)

IdleRequest ==
    [pc |-> "idle",
     method |-> "none",
     input |-> NoInput,
     result |-> NoResult,
     riskLevel |-> "none",
     platform |-> "none",
     ipAddress |-> None,
     insertOk |-> FALSE,
     rowId |-> 0,
     response |-> NoResponse,
     analyzeCalls |-> 0,
     createCalls |-> 0,
     insertAttempts |-> 0,
     responses |-> 0]

Init ==
    /\ score = 0
    /\ riskLevel = "none"
    /\ riskLevelFromScore = "none"
    /\ url = <<>>
    /\ platform = "none"
    /\ caseVariant = <<>>
    /\ variantPlatform = "none"
    /\ BenchIdle
    /\ apiKey \in BOOLEAN
    /\ reqs = [r \in Requests |-> IdleRequest]
    /\ analyses = <<>>
    /\ nextId = 1

\* isOpenAIConfigured()
isOpenAIConfigured == apiKey

serviceFailed_And(result) == ~result.success /\ result.data.kind # "object"

\* if (!result.success || !result.data)
serviceFailed(result) == ~result.success \/ result.data.kind # "object"

NewRow_DefaultPlatform(id, data, v, plat, ip) ==
    [id |-> id,
     url |-> v.url,
     platform |-> "unknown",
     analysisType |-> "listing",
     riskScore |-> data.riskScore,
     warnings |-> data.warnings,
     recommendations |-> data.recommendations,
     reasoning |-> data.reasoning,
     analysisData |->
        [detectedPatterns |-> data.detectedPatterns,
         priceAnalysis |->
            IF data.priceAnalysis.kind = "object"
            THEN Some([inputPrice |-> v.price,
                       isPriceNormal |-> data.priceAnalysis.isPriceNormal])
            ELSE None],
     ipAddress |-> ip]

\* the values(...) argument of db.insert(analyses)
NewRow(id, data, v, plat, ip) ==
    [id |-> id,
     url |-> v.url,
     platform |-> plat,
     analysisType |-> "listing",
     riskScore |-> data.riskScore,
     warnings |-> data.warnings,
     recommendations |-> data.recommendations,
     reasoning |-> data.reasoning,
     analysisData |->
        [detectedPatterns |-> data.detectedPatterns,
         priceAnalysis |->
            IF data.priceAnalysis.kind = "object"
            THEN Some([inputPrice |-> v.price,
                       isPriceNormal |-> data.priceAnalysis.isPriceNormal])
            ELSE None],
     ipAddress |-> ip]

\* the catch block of POST
catchResponse_NoSyntaxBranch(error, issues) ==
    IF error = "ZodError"
    THEN Response(400, FALSE, Some("Validation failed"), Some(issues), NoResponseData)
    ELSE ErrorResponse(500, "Internal server error")

\* a catch block without its last branch: an unexpected error is thrown on,
\* and the handler produces no response of its own
catchResponse_NoCatchAll(error, issues) ==
    IF error = "ZodError"
    THEN Response(400, FALSE, Some("Validation failed"), Some(issues), NoResponseData)
    ELSE IF error = "SyntaxError"
    THEN ErrorResponse(400, "Invalid JSON")
    ELSE NoResponse

catchResponse(error, issues) ==
    IF error = "ZodError"
    THEN Response(400, FALSE, Some("Validation failed"), Some(issues), NoResponseData)
    ELSE IF error = "SyntaxError"
    THEN ErrorResponse(400, "Invalid JSON")
    ELSE ErrorResponse(500, "Internal server error")

failureMessage_Generic(result) == "Analysis failed"

\* result.error || 'Analysis failed'
failureMessage(result) ==
    IF IsSome(result.error) /\ result.error[1] # ""
    THEN result.error[1]
    ELSE "Analysis failed"

Respond(r, response) ==
    reqs' = [reqs EXCEPT ![r].pc = "done",
                         ![r].response = response,
                         ![r].responses = @ + 1]

\* a client sends a request: POST runs up to "await request.json()"
POST_Begin(r) ==
    /\ reqs[r].pc = "idle"
    /\ \E input \in RequestInputs :
        reqs' = [reqs EXCEPT ![r].pc = "awaitJson", ![r].method = "POST",
                             ![r].input = input]
    /\ UNCHANGED <<apiKey, analyses, nextId>>
    /\ UNCHANGED pureVars

\* the same step, for a request drawn from WideInputs
POST_BeginWide(r) ==
    /\ reqs[r].pc = "idle"
    /\ \E input \in WideInputs :
        reqs' = [reqs EXCEPT ![r].pc = "awaitJson", ![r].method = "POST",
                             ![r].input = input]
    /\ UNCHANGED <<apiKey, analyses, nextId>>
    /\ UNCHANGED pureVars

\* request.json() settles: POST runs up to "await analyzeListing(...)", and
\* analyzeListing up to "await openai.chat.completions.create(...)"
POST_AfterJson(r) ==
    /\ reqs[r].pc = "awaitJson"
    /\ LET input == reqs[r].input
           issues == requestIssues(input.body)
       IN  IF input.json = "syntaxError"
           THEN Respond(r, catchResponse("SyntaxError", <<>>))
           ELSE IF input.json = "otherError"
           THEN Respond(r, catchResponse("TypeError", <<>>))
           ELSE IF issues # <<>>
           THEN Respond(r, catchResponse("ZodError", issues))
           ELSE IF ~isOpenAIConfigured
           THEN reqs' = [reqs EXCEPT ![r].pc = "analyzed",
                                     ![r].analyzeCalls = @ + 1,
                                     ![r].result = NotConfiguredResult]
           ELSE reqs' = [reqs EXCEPT ![r].pc = "awaitCompletion",
                                     ![r].analyzeCalls = @ + 1,
                                     ![r].createCalls = @ + 1]
    /\ UNCHANGED <<apiKey, analyses, nextId>>
    /\ UNCHANGED pureVars

\* the create call settles: analyzeListing runs to its return
analyzeListing_AfterCompletion(r) ==
    /\ reqs[r].pc = "awaitCompletion"
    /\ \E c \in Completions :
        reqs' = [reqs EXCEPT ![r].pc = "analyzed",
                             ![r].result = afterCompletion(c)]
    /\ UNCHANGED <<apiKey, analyses, nextId>>
    /\ UNCHANGED pureVars

\* analyzeListing has returned: POST runs up to "await db.insert(...)"
POST_AfterAnalysis(r) ==
    /\ reqs[r].pc = "analyzed"
    /\ LET result == reqs[r].result IN
        IF serviceFailed(result)
        THEN Respond(r, ErrorResponse(500, failureMessage(result)))
        ELSE reqs' = [reqs EXCEPT
                ![r].pc = "awaitInsert",
                ![r].riskLevel = getRiskLevel(result.data.riskScore),
                ![r].platform = detectPlatform(validatedData(reqs[r].input.body).url),
                ![r].ipAddress = extractIpAddress(reqs[r].input.headers),
                ![r].insertAttempts = @ + 1]
    /\ UNCHANGED <<apiKey, analyses, nextId>>
    /\ UNCHANGED pureVars

\* an insert that replaces the stored row of the same url
InsertSettles_Upsert(r) ==
    /\ reqs[r].pc = "awaitInsert"
    /\ LET row == NewRow(nextId, reqs[r].result.data,
                         validatedData(reqs[r].input.body),
                         reqs[r].platform, reqs[r].ipAddress)
           same == { i \in 1..Len(analyses) : analyses[i].url = row.url }
       IN \/ /\ analyses' = IF same = {}
                            THEN Append(analyses, row)
                            ELSE [analyses EXCEPT ![CHOOSE i \in same : TRUE] = row]
             /\ nextId' = nextId + 1
             /\ reqs' = [reqs EXCEPT ![r].pc = "insertSettled",
                                     ![r].insertOk = TRUE,
                                     ![r].rowId = nextId]
          \/ /\ reqs' = [reqs EXCEPT ![r].pc = "insertSettled",
                                     ![r].insertOk = FALSE]
             /\ UNCHANGED <<analyses, nextId>>
    /\ UNCHANGED apiKey
    /\ UNCHANGED pureVars

\* an insert that is skipped when a row of the same url is already stored
InsertSettles_Dedup(r) ==
    /\ reqs[r].pc = "awaitInsert"
    /\ LET row == NewRow(nextId, reqs[r].result.data,
                         validatedData(reqs[r].input.body),
                         reqs[r].platform, reqs[r].ipAddress)
           same == { i \in 1..Len(analyses) : analyses[i].url = row.url }
       IN \/ /\ same = {}
             /\ analyses' = Append(analyses, row)
             /\ nextId' = nextId + 1
             /\ reqs' = [reqs EXCEPT ![r].pc = "insertSettled",
                                     ![r].insertOk = TRUE,
                                     ![r].rowId = nextId]
          \/ /\ same # {}
             /\ reqs' = [reqs EXCEPT ![r].pc = "insertSettled",
                                     ![r].insertOk = TRUE,
                                     ![r].rowId = analyses[CHOOSE i \in same : TRUE].id]
             /\ UNCHANGED <<analyses, nextId>>
          \/ /\ reqs' = [reqs EXCEPT ![r].pc = "insertSettled",
                                     ![r].insertOk = FALSE]
             /\ UNCHANGED <<analyses, nextId>>
    /\ UNCHANGED apiKey
    /\ UNCHANGED pureVars

\* the database executes the INSERT, or fails to
InsertSettles(r) ==
    /\ reqs[r].pc = "awaitInsert"
    /\ \/ /\ analyses' = Append(analyses,
                NewRow(nextId, reqs[r].result.data,
                       validatedData(reqs[r].input.body),
                       reqs[r].platform, reqs[r].ipAddress))
          /\ nextId' = nextId + 1
          /\ reqs' = [reqs EXCEPT ![r].pc = "insertSettled",
                                  ![r].insertOk = TRUE,
                                  ![r].rowId = nextId]
       \/ /\ reqs' = [reqs EXCEPT ![r].pc = "insertSettled",
                                  ![r].insertOk = FALSE]
          /\ UNCHANGED <<analyses, nextId>>
    /\ UNCHANGED apiKey
    /\ UNCHANGED pureVars

\* POST without the catch around the insert
POST_AfterInsert_IgnoreFailure(r) ==
    /\ reqs[r].pc = "insertSettled"
    /\ Respond(r, Response(200, TRUE, None, None,
                  ResponseData(reqs[r].result.data, reqs[r].riskLevel)))
    /\ UNCHANGED <<apiKey, analyses, nextId>>
    /\ UNCHANGED pureVars

\* db.insert has settled: POST runs to its return
POST_AfterInsert(r) ==
    /\ reqs[r].pc = "insertSettled"
    /\ IF ~reqs[r].insertOk
       THEN Respond(r, ErrorResponse(500, "Failed to save analysis results"))
       ELSE Respond(r, Response(200, TRUE, None, None,
                        ResponseData(reqs[r].result.data, reqs[r].riskLevel)))
    /\ UNCHANGED <<apiKey, analyses, nextId>>
    /\ UNCHANGED pureVars

Next ==
    \E r \in Requests :
        \/ POST_Begin(r)
        \/ POST_AfterJson(r)
        \/ analyzeListing_AfterCompletion(r)
        \/ POST_AfterAnalysis(r)
        \/ InsertSettles(r)
        \/ POST_AfterInsert(r)

Spec == Init /\ [][Next]_vars

(***************************************************************************)
(* Observations used by the properties of POST                             *)
(***************************************************************************)
Done(r) == reqs[r].pc = "done"
Status(r) == reqs[r].response.status

ValidBody(r) ==
    /\ reqs[r].input.json = "ok"
    /\ isUrl(reqs[r].input.body.url)
    /\ Len(reqs[r].input.body.text) \in 1..10000
    /\ IsSome(reqs[r].input.body.images) =>
         \A i \in 1..Len(reqs[r].input.body.images[1]) :
            isUrl(reqs[r].input.body.images[1][i])
    /\ IsSome(reqs[r].input.body.price) => reqs[r].input.body.price[1] > 0

AnalysisSucceeded(r) ==
    /\ reqs[r].result.success
    /\ reqs[r].result.data.kind = "object"

LevelOf(s) ==
    IF s < 30 THEN "low" ELSE IF s < 70 THEN "medium" ELSE "high"

RowsWithId(id) == { i \in 1..Len(analyses) : analyses[i].id = id }
RowOf(r) == analyses[CHOOSE i \in 1..Len(analyses) : analyses[i].id = reqs[r].rowId]

SameAnalysis(out, data) ==
    /\ out.riskScore = data.riskScore
    /\ out.warnings = data.warnings
    /\ out.recommendations = data.recommendations
    /\ out.reasoning = data.reasoning
    /\ out.detectedPatterns = data.detectedPatterns
    /\ out.priceAnalysis = data.priceAnalysis

(***************************************************************************)
(* C3: within one POST the steps run in sequence: the analysis is invoked  *)
(* at most once and only after validation succeeded, the insert is         *)
(* attempted at most once and only after the analysis returned success     *)
(* with data, a 200 response is sent only after the insert succeeded, and  *)
(* no step is retried.                                                     *)
(***************************************************************************)
C3_StrictSequence ==
    \A r \in Requests :
        /\ reqs[r].analyzeCalls <= 1
        /\ reqs[r].createCalls <= reqs[r].analyzeCalls
        /\ reqs[r].analyzeCalls = 1 => ValidBody(r)
        /\ reqs[r].insertAttempts <= 1
        /\ reqs[r].insertAttempts = 1 =>
             reqs[r].analyzeCalls = 1 /\ AnalysisSucceeded(r)
        /\ reqs[r].responses <= 1
        /\ Status(r) = 200 =>
             /\ reqs[r].insertAttempts = 1
             /\ reqs[r].insertOk
             /\ Cardinality(RowsWithId(reqs[r].rowId)) = 1

C3_Witness ==
    \E r \in Requests :
        /\ Done(r)
        /\ Status(r) = 200
        /\ reqs[r].analyzeCalls = 1
        /\ reqs[r].createCalls = 1
        /\ reqs[r].insertAttempts = 1

(***************************************************************************)
(* C4: valid body, analysis success with score s, insert success: POST     *)
(* responds 200 with success true, the analysis fields and riskLevel of s; *)
(* the inserted row has the submitted url, the platform of that url,       *)
(* analysisType listing and riskScore s.                                   *)
(***************************************************************************)
C4_SuccessResponseAndRow ==
    \A r \in Requests :
        (Done(r) /\ ValidBody(r) /\ AnalysisSucceeded(r) /\ reqs[r].insertOk) =>
            /\ Status(r) = 200
            /\ reqs[r].response.success
            /\ reqs[r].response.error = None
            /\ reqs[r].response.data.kind = "object"
            /\ SameAnalysis(reqs[r].response.data, reqs[r].result.data)
            /\ reqs[r].response.data.riskLevel = LevelOf(reqs[r].result.data.riskScore)
            /\ Cardinality(RowsWithId(reqs[r].rowId)) = 1
            /\ RowOf(r).url = reqs[r].input.body.url
            /\ FollowsPlatformRule(reqs[r].input.body.url, RowOf(r).platform)
            /\ RowOf(r).analysisType = "listing"
            /\ RowOf(r).riskScore = reqs[r].result.data.riskScore
            /\ RowOf(r).riskScore = reqs[r].response.data.riskScore

C4_Witness ==
    \E r \in Requests :
        /\ Done(r)
        /\ Status(r) = 200
        /\ reqs[r].response.data.riskScore = 85
        /\ reqs[r].response.data.riskLevel = "high"
        /\ RowOf(r).platform = "twitter"
        /\ RowOf(r).url = InstagramUrl

(***************************************************************************)
(* C5: a JSON body that violates the request schema gets 400, success      *)
(* false, error "Validation failed" and one details entry per violated     *)
(* field constraint; the analysis is not called and no row is inserted.    *)
(***************************************************************************)
B2N(b) == IF b THEN 1 ELSE 0

ViolationCount(body) ==
    B2N(~isUrl(body.url))
    + B2N(Len(body.text) < 1)
    + B2N(Len(body.text) > 10000)
    + (IF IsSome(body.images)
       THEN Cardinality({ i \in 1..Len(body.images[1]) : ~isUrl(body.images[1][i]) })
       ELSE 0)
    + B2N(IsSome(body.price) /\ body.price[1] <= 0)

C5_ValidationFailure ==
    \A r \in Requests :
        (Done(r) /\ reqs[r].input.json = "ok" /\ ~ValidBody(r)) =>
            /\ Status(r) = 400
            /\ ~reqs[r].response.success
            /\ reqs[r].response.error = Some("Validation failed")
            /\ IsSome(reqs[r].response.details)
            /\ Len(reqs[r].response.details[1]) = ViolationCount(reqs[r].input.body)
            /\ reqs[r].analyzeCalls = 0
            /\ reqs[r].insertAttempts = 0
            /\ reqs[r].rowId = 0

C5_Witness ==
    \E r \in Requests :
        /\ Done(r)
        /\ Status(r) = 400
        /\ IsSome(reqs[r].response.details)
        /\ Len(reqs[r].response.details[1]) = 4
        /\ reqs[r].analyzeCalls = 0

(***************************************************************************)
(* C6: a body that is not parseable as JSON gets 400, success false and    *)
(* error "Invalid JSON", without validation, analysis or insert.           *)
(***************************************************************************)
C6_InvalidJson ==
    \A r \in Requests :
        (Done(r) /\ reqs[r].input.json = "syntaxError") =>
            /\ Status(r) = 400
            /\ ~reqs[r].response.success
            /\ reqs[r].response.error = Some("Invalid JSON")
            /\ reqs[r].response.details = None
            /\ reqs[r].analyzeCalls = 0
            /\ reqs[r].insertAttempts = 0
            /\ reqs[r].rowId = 0

C6_Witness ==
    \E r \in Requests :
        /\ Done(r)
        /\ reqs[r].input.json = "syntaxError"
        /\ reqs[r].response.error = Some("Invalid JSON")

(***************************************************************************)
(* C7 as stated: when analyzeListing returns success false with error      *)
(* message m, POST responds 500 with success false and error equal to m,   *)
(* and no insert is attempted.                                             *)
(***************************************************************************)
C7_AsStated ==
    \A r \in Requests :
        (Done(r) /\ reqs[r].analyzeCalls = 1 /\ ~reqs[r].result.success
                 /\ IsSome(reqs[r].result.error)) =>
            /\ Status(r) = 500
            /\ ~reqs[r].response.success
            /\ reqs[r].response.error = reqs[r].result.error
            /\ reqs[r].insertAttempts = 0

(***************************************************************************)
(* C7 amended: when analyzeListing returns success false with error        *)
(* message m, POST responds 500 with success false and no insert is        *)
(* attempted; error equals m when m is not empty and is "Analysis failed"  *)
(* when m is the empty string.                                             *)
(***************************************************************************)
C7_ServiceFailure ==
    \A r \in Requests :
        (Done(r) /\ reqs[r].analyzeCalls = 1 /\ ~reqs[r].result.success
                 /\ IsSome(reqs[r].result.error)) =>
            /\ Status(r) = 500
            /\ ~reqs[r].response.success
            /\ reqs[r].result.error[1] # "" =>
                 reqs[r].response.error = reqs[r].result.error
            /\ reqs[r].result.error[1] = "" =>
                 reqs[r].response.error = Some("Analysis failed")
            /\ reqs[r].insertAttempts = 0
            /\ reqs[r].rowId = 0

C7_Witness ==
    \E r \in Requests :
        /\ Done(r)
        /\ ~reqs[r].result.success
        /\ reqs[r].result.error = Some("API rate limit exceeded")
        /\ reqs[r].response.error = Some("API rate limit exceeded")
        /\ Status(r) = 500

(***************************************************************************)
(* C8: when the analysis succeeds but the insert fails, POST responds 500  *)
(* with success false and error "Failed to save analysis results", and     *)
(* returns none of the analysis data.                                      *)
(***************************************************************************)
C8_InsertFailure ==
    \A r \in Requests :
        (Done(r) /\ AnalysisSucceeded(r) /\ reqs[r].insertAttempts = 1
                 /\ ~reqs[r].insertOk) =>
            /\ Status(r) = 500
            /\ ~reqs[r].response.success
            /\ reqs[r].response.error = Some("Failed to save analysis results")
            /\ reqs[r].response.data.kind = "undefined"
            /\ reqs[r].response.data = NoResponseData

C8_Witness ==
    \E r \in Requests :
        /\ Done(r)
        /\ AnalysisSucceeded(r)
        /\ reqs[r].insertAttempts = 1
        /\ ~reqs[r].insertOk
        /\ Status(r) = 500

(***************************************************************************)
(* C9 as stated: every 200 response, and every stored row, carries an      *)
(* analysis with riskScore an integer in 0..100, at least one warning, at  *)
(* least one recommendation and reasoning of at least 50 characters; in    *)
(* every other case an error response is returned.                         *)
(***************************************************************************)
MeetsListingMinimums(a) ==
    /\ a.riskScore \in 0..100
    /\ Len(a.warnings) >= 1
    /\ Len(a.recommendations) >= 1
    /\ Len(a.reasoning) >= 50

IsErrorResponse(r) ==
    /\ Status(r) \in {400, 500}
    /\ ~reqs[r].response.success
    /\ IsSome(reqs[r].response.error)
    /\ reqs[r].response.data.kind = "undefined"

RowCarries(row, data) ==
    /\ row.riskScore = data.riskScore
    /\ row.warnings = data.warnings
    /\ row.recommendations = data.recommendations
    /\ row.reasoning = data.reasoning
    /\ row.analysisData.detectedPatterns = data.detectedPatterns

ValidationAccepted(data) ==
    /\ MeetsListingMinimums(data)
    /\ data.priceAnalysis.kind # "null"
    /\ data.translatedText.kind # "null"

Responded200 == { r \in Requests : Status(r) = 200 }
RespondedError == { r \in Requests : Status(r) \in {400, 500} }
\* the insert has been executed and POST has not resumed yet
InsertedNotResponded ==
    { r \in Requests : reqs[r].pc = "insertSettled" /\ reqs[r].insertOk }

RowCountMatches ==
    /\ Len(analyses) = Cardinality(Responded200) + Cardinality(InsertedNotResponded)
    /\ (\A r \in Requests : reqs[r].pc \in {"idle", "done"}) =>
         Len(analyses) = Cardinality(Responded200)
    /\ \A r \in Responded200 : Cardinality(RowsWithId(reqs[r].rowId)) = 1
    /\ \A r, q \in Responded200 : r # q => reqs[r].rowId # reqs[q].rowId
    /\ \A r \in RespondedError :
         reqs[r].rowId = 0 /\ ~reqs[r].insertOk

RowsOnlyAppended ==
    /\ Len(analyses') \in {Len(analyses), Len(analyses) + 1}
    /\ \A i \in 1..Len(analyses) : analyses'[i] = analyses[i]

C10_RowsMatchSuccesses == []RowCountMatches /\ [][RowsOnlyAppended]_vars

C10_Witness ==
    /\ \A r \in Requests : Done(r)
    /\ Cardinality(Responded200) = 1
    /\ Cardinality(RespondedError) = NumRequests - 1
    /\ Len(analyses) = 1
    /\ \E r \in RespondedError : reqs[r].insertAttempts = 1

(***************************************************************************)
(* Bench for the analysis services: one invocation of one service          *)
(***************************************************************************)
MaxImages == 2
ImageCounts == 0..MaxImages

InitServices ==
    /\ ClassifiersIdle
    /\ callArgs \in { [service |-> s, imageUrls |-> n] :
                        s \in Services, n \in ImageCounts }
    /\ returned = NotCalled
    /\ apiKey \in BOOLEAN
    /\ reqs = <<>>
    /\ analyses = <<>>
    /\ nextId = 1

Invocation(pc, externalCalls, settled, result, c) ==
    [pc |-> pc, fn |-> callArgs.service, externalCalls |-> externalCalls,
     settled |-> settled, result |-> result, completion |-> c]

\* a service that goes to the external call whatever the configuration
Service_Begin_CallAnyway ==
    /\ returned = NotCalled
    /\ returned' = Invocation("awaitCall", 1, "pending", NoResult, NoCompletion)
    /\ UNCHANGED <<score, riskLevel, riskLevelFromScore,
                   url, platform, caseVariant, variantPlatform, callArgs>>
    /\ UNCHANGED routeVars

\* the service is invoked: it runs up to the await of the external call, or
\* to an early return
Service_Begin ==
    /\ returned = NotCalled
    /\ returned' =
        IF ~isOpenAIConfigured
        THEN Invocation("returned", 0, "resolved", NotConfiguredResult, NoCompletion)
        ELSE IF callArgs.service = "analyzeImage" /\ callArgs.imageUrls = 0
        THEN Invocation("returned", 0, "resolved",
                        Result(FALSE, NoAnalysis,
                               Some("At least one image URL is required")),
                        NoCompletion)
        ELSE Invocation("awaitCall", 1, "pending", NoResult, NoCompletion)
    /\ UNCHANGED <<score, riskLevel, riskLevelFromScore,
                   url, platform, caseVariant, variantPlatform, callArgs>>
    /\ UNCHANGED routeVars

\* a service that calls once more after a first exception
Service_AfterCall_Retry ==
    /\ returned.pc = "awaitCall"
    /\ \E c \in ServiceCompletions :
        returned' =
            IF c.kind \in {"throwError", "throwOther"} /\ returned.externalCalls = 1
            THEN [returned EXCEPT !.externalCalls = 2]
            ELSE [returned EXCEPT
                    !.pc = "returned",
                    !.settled = settle(callArgs.service, c).settled,
                    !.result = settle(callArgs.service, c).result,
                    !.completion = c]
    /\ UNCHANGED <<score, riskLevel, riskLevelFromScore,
                   url, platform, caseVariant, variantPlatform, callArgs>>
    /\ UNCHANGED routeVars

\* the external call settles: the service runs to its return
Service_AfterCall ==
    /\ returned.pc = "awaitCall"
    /\ \E c \in ServiceCompletions :
        returned' = [returned EXCEPT
                        !.pc = "returned",
                        !.settled = settle(callArgs.service, c).settled,
                        !.result = settle(callArgs.service, c).result,
                        !.completion = c]
    /\ UNCHANGED <<score, riskLevel, riskLevelFromScore,
                   url, platform, caseVariant, variantPlatform, callArgs>>
    /\ UNCHANGED routeVars

NextServices == Service_Begin \/ Service_AfterCall

SpecServices == InitServices /\ [][NextServices]_vars

(***************************************************************************)
(* The other handlers of the route                                         *)
(***************************************************************************)
\* the methods a client can send besides POST
OtherMethods == {"GET", "PUT", "DELETE", "PATCH", "HEAD", "OPTIONS"}

\* the handlers the route module exports besides POST
ExportedHandlers == {"GET", "PUT", "DELETE"}

MethodNotAllowedResponse_NotFound ==
    [status |-> 404, error |-> Some("Not found")]

\* NextResponse.json({ error: 'Method not allowed' }, { status: 405 })
MethodNotAllowedResponse ==
    [status |-> 405, error |-> Some("Method not allowed")]

\* a request of another method: GET, PUT and DELETE run their handler; for
\* the rest the module exports nothing, and the answer is not the module's
Route_OtherMethod(r) ==
    /\ reqs[r].pc = "idle"
    /\ \E m \in OtherMethods :
        reqs' = IF m \in ExportedHandlers
                THEN [reqs EXCEPT ![r].pc = "done",
                                  ![r].method = m,
                                  ![r].response = MethodNotAllowedResponse,
                                  ![r].responses = @ + 1]
                ELSE [reqs EXCEPT ![r].pc = "unhandled", ![r].method = m]
    /\ UNCHANGED <<apiKey, analyses, nextId>>
    /\ UNCHANGED pureVars

(***************************************************************************)
(* Bench for analyzeSeller and sellerAnalysisOutputSchema                  *)
(***************************************************************************)
TrustLevels == {"low", "medium", "high"}

\* sellerAnalysisOutputSchema.safeParse(j).success
sellerAnalysisOutputSchema(j) ==
    /\ j.kind = "object"
    /\ j.trustScore.kind = "number"
    /\ j.trustScore.tenths = 0
    /\ j.trustScore.floor >= MinRiskScore
    /\ j.trustScore.floor <= MaxRiskScore
    /\ j.trustLevel.kind = "string"
    /\ j.trustLevel.value \in TrustLevels
    /\ stringArraySchema(j.strengths)
    /\ stringArraySchema(j.concerns)
    /\ stringArraySchema(j.recommendations)
    /\ Len(j.recommendations.items) >= MinRecommendations
    /\ j.reasoning.kind = "string"
    /\ Len(j.reasoning.value) >= MinReasoningLen

\* what the service can put in the content of its message
SellerValues ==
    { [kind |-> "object",
       trustScore |-> s,
       trustLevel |-> Text(l),
       strengths |-> List(<<Text("s1")>>),
       concerns |-> List(<<>>),
       recommendations |-> rc,
       reasoning |-> Text(rs)] :
        s \in { Num(0 - 1, 0), Num(MinRiskScore, 0), Num(MediumFrom - 1, 0),
                Num(MediumFrom, 0), Num(HighFrom - 1, 0), Num(HighFrom, 0),
                Num(MaxRiskScore, 0), Num(MaxRiskScore + 1, 0), Num(50, 5) },
        l \in TrustLevels \cup {"very_high"},
        rc \in { List(<<>>), List(<<Text("r1")>>) },
        rs \in { Str(MinReasoningLen - 1), Str(MinReasoningLen) } }

\* how the parse call with zodResponseFormat(sellerAnalysisOutputSchema)
\* settles on content j: parsed is j when the schema accepts it, and the
\* call throws otherwise
sellerCompletion(j) ==
    IF sellerAnalysisOutputSchema(j)
    THEN [kind |-> "content", message |-> "", json |-> TRUE,
          value |-> NoAnalysis, parsed |-> j]
    ELSE [kind |-> "throwError", message |-> "ZodError", json |-> TRUE,
          value |-> NoAnalysis, parsed |-> [kind |-> "null"]]

InitSeller ==
    /\ ClassifiersIdle
    /\ RouteIdle
    /\ callArgs \in SellerValues
    /\ returned = NotCalled

\* analyzeSeller, the service answering with content callArgs
CallAnalyzeSeller ==
    /\ returned = NotCalled
    /\ returned' = [pc |-> "returned",
                    fn |-> "analyzeSeller",
                    settled |-> settle("analyzeSeller", sellerCompletion(callArgs)).settled,
                    result |-> settle("analyzeSeller", sellerCompletion(callArgs)).result]
    /\ UNCHANGED <<score, riskLevel, riskLevelFromScore,
                   url, platform, caseVariant, variantPlatform, callArgs>>
    /\ UNCHANGED routeVars

NextSeller == CallAnalyzeSeller

SpecSeller == InitSeller /\ [][NextSeller]_vars

(***************************************************************************)
(* Bench for buildUserMessage.  The message is the sequence of the parts   *)
(* that parts.join('\n') glues together, each with the section it opens    *)
(* and the parameter it prints.                                            *)
(***************************************************************************)
Part(section, value) == [section |-> section, value |-> <<value>>]

\* the item line pushed whether or not there is a price
buildUserMessage_ItemAlways(params) ==
    <<Part("intro", "Please analyze"), Part("content", params.text)>>
    \o (IF truthyHeader(params.url) THEN <<Part("url", params.url[1])>> ELSE <<>>)
    \o (IF IsSome(params.price)
        THEN <<Part("price", params.price[1])>> ELSE <<>>)
    \o (IF IsSome(params.itemName) /\ params.itemName[1] # ""
        THEN <<Part("item", params.itemName[1])>> ELSE <<>>)
    \o (IF IsSome(params.price) THEN <<Part("priceEnd", "")>> ELSE <<>>)
    \o (IF IsSome(params.images) /\ Len(params.images[1]) > 0
        THEN <<Part("images", Len(params.images[1]))>> ELSE <<>>)
    \o <<Part("request", "Provide a comprehensive fraud risk analysis")>>

buildUserMessage(params) ==
    <<Part("intro", "Please analyze"), Part("content", params.text)>>
    \o (IF IsSome(params.url) /\ params.url[1] # <<>>
        THEN <<Part("url", params.url[1])>> ELSE <<>>)
    \o (IF IsSome(params.price)
        THEN <<Part("price", params.price[1])>>
             \o (IF IsSome(params.itemName) /\ params.itemName[1] # ""
                 THEN <<Part("item", params.itemName[1])>> ELSE <<>>)
             \o <<Part("priceEnd", "")>>
        ELSE <<>>)
    \o (IF IsSome(params.images) /\ Len(params.images[1]) > 0
        THEN <<Part("images", Len(params.images[1]))>> ELSE <<>>)
    \o <<Part("request", "Provide a comprehensive fraud risk analysis")>>

ListingParams ==
    { [text |-> t, url |-> u, price |-> p, itemName |-> n, images |-> im] :
        t \in { Str(1), Str(3) },
        u \in { None, Some(<<>>), Some(ExampleUrl) },
        p \in { None, Some(0), Some(300000) },
        n \in { None, Some(""), Some("card") },
        im \in { None, Some(<<>>), Some(<<ExampleUrl>>),
                 Some(<<ExampleUrl, ExampleUrl>>) } }

InitUserMessage ==
    /\ ClassifiersIdle
    /\ RouteIdle
    /\ callArgs \in ListingParams
    /\ returned = NotCalled

CallBuildUserMessage ==
    /\ returned = NotCalled
    /\ returned' = [pc |-> "returned",
                    fn |-> "buildUserMessage",
                    parts |-> buildUserMessage(callArgs)]
    /\ UNCHANGED <<score, riskLevel, riskLevelFromScore,
                   url, platform, caseVariant, variantPlatform, callArgs>>
    /\ UNCHANGED routeVars

NextUserMessage == CallBuildUserMessage

SpecUserMessage == InitUserMessage /\ [][NextUserMessage]_vars

(***************************************************************************)
(* Bench for buildSellerAnalysisMessage                                    *)
(***************************************************************************)
\* the counts pushed outside the account-metrics branch
buildSellerAnalysisMessage_CountsAlways(params) ==
    <<Part("intro", "Please analyze"), Part("seller", "## Seller Information"),
      Part("username", params.username), Part("platform", params.platform)>>
    \o (IF IsSome(params.accountAge)
        THEN <<Part("metrics", "## Account Metrics"),
               Part("accountAge", params.accountAge[1])>>
        ELSE <<>>)
    \o (IF IsSome(params.followerCount)
        THEN <<Part("followers", params.followerCount[1])>> ELSE <<>>)
    \o (IF IsSome(params.followingCount)
        THEN <<Part("following", params.followingCount[1])>> ELSE <<>>)
    \o (IF IsSome(params.postCount)
        THEN <<Part("posts", params.postCount[1])>> ELSE <<>>)
    \o (IF IsSome(params.accountAge) THEN <<Part("metricsEnd", "")>> ELSE <<>>)
    \o (IF IsSome(params.bio) /\ params.bio[1] # ""
        THEN <<Part("bio", params.bio[1])>> ELSE <<>>)
    \o (IF IsSome(params.recentActivity) /\ params.recentActivity[1] # ""
        THEN <<Part("recentActivity", params.recentActivity[1])>> ELSE <<>>)
    \o <<Part("request", "Evaluate the seller's trustworthiness")>>

buildSellerAnalysisMessage(params) ==
    <<Part("intro", "Please analyze"), Part("seller", "## Seller Information"),
      Part("username", params.username), Part("platform", params.platform)>>
    \o (IF IsSome(params.accountAge)
        THEN <<Part("metrics", "## Account Metrics"),
               Part("accountAge", params.accountAge[1])>>
             \o (IF IsSome(params.followerCount)
                 THEN <<Part("followers", params.followerCount[1])>> ELSE <<>>)
             \o (IF IsSome(params.followingCount)
                 THEN <<Part("following", params.followingCount[1])>> ELSE <<>>)
             \o (IF IsSome(params.postCount)
                 THEN <<Part("posts", params.postCount[1])>> ELSE <<>>)
             \o <<Part("metricsEnd", "")>>
        ELSE <<>>)
    \o (IF IsSome(params.bio) /\ params.bio[1] # ""
        THEN <<Part("bio", params.bio[1])>> ELSE <<>>)
    \o (IF IsSome(params.recentActivity) /\ params.recentActivity[1] # ""
        THEN <<Part("recentActivity", params.recentActivity[1])>> ELSE <<>>)
    \o <<Part("request", "Evaluate the seller's trustworthiness")>>

SellerParams ==
    { [username |-> "kpop_seller", platform |-> "twitter",
       accountAge |-> a, followerCount |-> fr, followingCount |-> fg,
       postCount |-> pc, bio |-> b, recentActivity |-> ra] :
        a \in { None, Some(0), Some(365) },
        fr \in { None, Some(0), Some(1200) },
        fg \in { None, Some(80) },
        pc \in { None, Some(5) },
        b \in { None, Some(""), Some("bio") },
        ra \in { None, Some("activity") } }

InitSellerMessage ==
    /\ ClassifiersIdle
    /\ RouteIdle
    /\ callArgs \in SellerParams
    /\ returned = NotCalled

CallBuildSellerAnalysisMessage ==
    /\ returned = NotCalled
    /\ returned' = [pc |-> "returned",
                    fn |-> "buildSellerAnalysisMessage",
                    parts |-> buildSellerAnalysisMessage(callArgs)]
    /\ UNCHANGED <<score, riskLevel, riskLevelFromScore,
                   url, platform, caseVariant, variantPlatform, callArgs>>
    /\ UNCHANGED routeVars

NextSellerMessage == CallBuildSellerAnalysisMessage

SpecSellerMessage == InitSellerMessage /\ [][NextSellerMessage]_vars

(***************************************************************************)
(* Bench for the OpenAI client module: its module variable openaiClient,   *)
(* the number of clients constructed so far, and the log of the calls      *)
(***************************************************************************)
MaxClientCalls == 4

Accessors == {"getOpenAIClient", "openai.beta", "openai.chat"}

\* a client constructed on every call
getOpenAIClient_Fresh(m, constructorOk) ==
    IF constructorOk
    THEN [openaiClient |-> Some(m.constructed + 1),
          constructed |-> m.constructed + 1,
          value |-> Some(m.constructed + 1)]
    ELSE [openaiClient |-> m.openaiClient,
          constructed |-> m.constructed,
          value |-> None]

\* getOpenAIClient() on module state m: the new module state and the client
\* returned, None when new OpenAI(...) threw
getOpenAIClient(m, constructorOk) ==
    IF m.openaiClient = None
    THEN IF constructorOk
         THEN [openaiClient |-> Some(m.constructed + 1),
               constructed |-> m.constructed + 1,
               value |-> Some(m.constructed + 1)]
         ELSE [openaiClient |-> None,
               constructed |-> m.constructed,
               value |-> None]
    ELSE [openaiClient |-> m.openaiClient,
          constructed |-> m.constructed,
          value |-> m.openaiClient]

InitClient ==
    /\ ClassifiersIdle
    /\ callArgs = <<>>
    /\ returned = [pc |-> "loaded", openaiClient |-> None,
                   constructed |-> 0, log |-> <<>>]
    /\ apiKey \in BOOLEAN
    /\ reqs = <<>>
    /\ analyses = <<>>
    /\ nextId = 1

\* one call of getOpenAIClient, directly or through a getter of openai; the
\* constructor can throw only when no API key is set
CallGetOpenAIClient ==
    /\ Len(returned.log) < MaxClientCalls
    /\ \E via \in Accessors :
       \E constructorOk \in (IF isOpenAIConfigured THEN {TRUE} ELSE BOOLEAN) :
        LET out == getOpenAIClient(returned, constructorOk) IN
        returned' = [returned EXCEPT
                        !.openaiClient = out.openaiClient,
                        !.constructed = out.constructed,
                        !.log = Append(@, [via |-> via, value |-> out.value])]
    /\ UNCHANGED <<score, riskLevel, riskLevelFromScore,
                   url, platform, caseVariant, variantPlatform, callArgs>>
    /\ UNCHANGED routeVars

NextClient == CallGetOpenAIClient

SpecClient == InitClient /\ [][NextClient]_vars

(***************************************************************************)
(* listingAnalysisJsonSchema, the response format requested from the       *)
(* service, and the validation step of analyzeListing on a response that   *)
(* conforms to it                                                          *)
(***************************************************************************)
\* j conforms to listingAnalysisJsonSchema: every key is required, the last
\* two may be null, no key has a minimum length
listingAnalysisJsonSchema(j) ==
    /\ j.kind = "object"
    /\ j.riskScore.kind = "number"
    /\ j.riskScore.tenths = 0
    /\ j.riskScore.floor >= MinRiskScore
    /\ j.riskScore.floor <= MaxRiskScore
    /\ stringArraySchema(j.detectedPatterns)
    /\ stringArraySchema(j.warnings)
    /\ stringArraySchema(j.recommendations)
    /\ j.reasoning.kind = "string"
    /\ \/ j.priceAnalysis.kind = "null"
       \/ /\ j.priceAnalysis.kind = "object"
          /\ j.priceAnalysis.isPriceNormal.kind = "boolean"
          /\ j.priceAnalysis.priceComment.kind = "string"
    /\ j.translatedText.kind \in {"string", "null"}

InitConformance ==
    /\ ClassifiersIdle
    /\ RouteIdle
    /\ callArgs \in OutputValues
    /\ returned = NotCalled

\* the service, held to listingAnalysisJsonSchema, answers callArgs;
\* analyzeListing validates it and takes the fallback when validation fails
ValidateConforming ==
    /\ returned = NotCalled
    /\ listingAnalysisJsonSchema(callArgs)
    /\ returned' = [pc |-> "returned",
                    fn |-> "analyzeListing.validation",
                    fallback |-> ~listingAnalysisOutputSchema(callArgs),
                    success |-> TRUE]
    /\ UNCHANGED <<score, riskLevel, riskLevelFromScore,
                   url, platform, caseVariant, variantPlatform, callArgs>>
    /\ UNCHANGED routeVars

NextConformance == ValidateConforming

SpecConformance == InitConformance /\ [][NextConformance]_vars

(***************************************************************************)
(* analysisResponseSchema, on the body of a POST response.  The keys the   *)
(* model keeps typed (success, error, the lists, reasoning) have their     *)
(* declared types; unknown keys such as details are stripped.              *)
(***************************************************************************)
\* analysisResponseSchema.safeParse(body).success
analysisResponseSchema(body) ==
    \/ body.data.kind = "undefined"
    \/ /\ body.data.kind = "object"
       /\ body.data.riskScore >= MinRiskScore
       /\ body.data.riskScore <= MaxRiskScore
       /\ body.data.riskLevel \in {"low", "medium", "high"}
       /\ body.data.priceAnalysis.kind \in {"undefined", "object"}

(***************************************************************************)
(* ListingAnalysisForm: the state hooks isAnalyzing, result and error, and *)
(* the submissions whose fetch has not been answered yet.  handleSubmit is *)
(* the onSubmit handler of the form, which is rendered while result is     *)
(* null; only the submit button is disabled while isAnalyzing.             *)
(***************************************************************************)
MaxSubmissions == 3

\* how the awaited fetch and response.json() of a submission end
FetchOutcomes ==
    { [ok |-> TRUE, message |-> ""],
      [ok |-> FALSE, message |-> "Validation failed"],
      [ok |-> FALSE, message |-> "Analysis failed"],
      [ok |-> FALSE, message |-> "An error occurred"] }

InitForm ==
    /\ ClassifiersIdle
    /\ RouteIdle
    /\ callArgs = <<>>
    /\ returned = [pc |-> "mounted", isAnalyzing |-> FALSE, result |-> None,
                   error |-> None, inFlight |-> {}, started |-> 0,
                   completed |-> <<>>, lastEvent |-> "mount"]

\* handleSubmit up to "await fetch(...)"
handleSubmit ==
    /\ returned.result = None
    /\ returned.started < MaxSubmissions
    /\ returned' = [returned EXCEPT
                        !.isAnalyzing = TRUE,
                        !.error = None,
                        !.result = None,
                        !.started = @ + 1,
                        !.inFlight = @ \cup {returned.started + 1},
                        !.lastEvent = "submit"]
    /\ UNCHANGED <<score, riskLevel, riskLevelFromScore,
                   url, platform, caseVariant, variantPlatform, callArgs>>
    /\ UNCHANGED routeVars

\* the fetch of submission s is answered: handleSubmit runs to its end,
\* through setResult or the catch, then the finally block
handleSubmit_AfterFetch ==
    /\ \E s \in returned.inFlight : \E o \in FetchOutcomes :
        returned' = [returned EXCEPT
                        !.isAnalyzing = FALSE,
                        !.result = IF o.ok THEN Some(s) ELSE @,
                        !.error = IF o.ok THEN @ ELSE Some(o.message),
                        !.inFlight = @ \ {s},
                        !.completed = Append(@, s),
                        !.lastEvent = "complete"]
    /\ UNCHANGED <<score, riskLevel, riskLevelFromScore,
                   url, platform, caseVariant, variantPlatform, callArgs>>
    /\ UNCHANGED routeVars

\* handleReset, the onClick handler of the button shown with a result
handleReset ==
    /\ returned.result # None
    /\ returned' = [returned EXCEPT !.result = None, !.error = None,
                                    !.lastEvent = "reset"]
    /\ UNCHANGED <<score, riskLevel, riskLevelFromScore,
                   url, platform, caseVariant, variantPlatform, callArgs>>
    /\ UNCHANGED routeVars

NextForm == handleSubmit \/ handleSubmit_AfterFetch \/ handleReset

SpecForm == InitForm /\ [][NextForm]_vars

\* one request at a time, over the wide inputs
NextOneRequest ==
    \/ POST_BeginWide(1)
    \/ Route_OtherMethod(1)
    \/ POST_AfterJson(1)
    \/ analyzeListing_AfterCompletion(1)
    \/ POST_AfterAnalysis(1)
    \/ InsertSettles(1)
    \/ POST_AfterInsert(1)

SpecOneRequest == Init /\ [][NextOneRequest]_vars

\* every promise POST awaits settles: the body is read, the external call
\* answers or fails, the insert executes or fails
FairOneRequest ==
    /\ WF_vars(POST_AfterJson(1))
    /\ WF_vars(analyzeListing_AfterCompletion(1))
    /\ WF_vars(POST_AfterAnalysis(1))
    /\ WF_vars(InsertSettles(1))
    /\ WF_vars(POST_AfterInsert(1))

FairSpecOneRequest == Init /\ [][NextOneRequest]_vars /\ FairOneRequest

(***************************************************************************)
(* C11: the same valid listing body submitted twice, both requests         *)
(* succeeding, stores two distinct rows with different ids: nothing is     *)
(* looked up or deduplicated before the insert.                            *)
(***************************************************************************)
C11_NoDeduplication ==
    \A r, q \in Requests :
        (r # q /\ Status(r) = 200 /\ Status(q) = 200
               /\ reqs[r].input.body = reqs[q].input.body) =>
            /\ reqs[r].rowId # reqs[q].rowId
            /\ Cardinality(RowsWithId(reqs[r].rowId)) = 1
            /\ Cardinality(RowsWithId(reqs[q].rowId)) = 1
            /\ RowOf(r).url = RowOf(q).url
            /\ Len(analyses) >= 2

C11_Witness ==
    \E r, q \in Requests :
        /\ r # q
        /\ Status(r) = 200
        /\ Status(q) = 200
        /\ reqs[r].input = reqs[q].input
        /\ reqs[r].result = reqs[q].result
        /\ RowOf(r).id # RowOf(q).id
        /\ RowOf(r).url = RowOf(q).url

(***************************************************************************)
(* C12: a request body carrying a top-level field outside url, text,       *)
(* images, price and itemName is rejected: the response is the 400         *)
(* validation failure.                                                     *)
(***************************************************************************)
DeclaredFields == {"url", "text", "images", "price", "itemName"}

HasUndeclaredField(body) == DOMAIN body \ DeclaredFields # {}

C12_UnknownFieldRejected ==
    \A r \in Requests :
        (Done(r) /\ reqs[r].input.json = "ok"
                 /\ HasUndeclaredField(reqs[r].input.body)) =>
            /\ Status(r) = 400
            /\ reqs[r].response.error = Some("Validation failed")
            /\ reqs[r].analyzeCalls = 0

(***************************************************************************)
(* C20: the stored client IP is the trimmed first comma-separated segment  *)
(* of x-forwarded-for when that header is present; otherwise x-real-ip;    *)
(* otherwise x-vercel-forwarded-for; otherwise null.  A request with none  *)
(* of the headers still succeeds.                                          *)
(***************************************************************************)
\* v is the first comma-separated segment of s without its outer spaces
IsTrimmedFirstSegment(v, s) ==
    \E k \in 1..(Len(s) + 1) :
        /\ k <= Len(s) => s[k] = ","
        /\ \A j \in 1..(k - 1) : s[j] # ","
        /\ \E a \in 1..k : \E b \in 0..(k - 1) :
            /\ v = SubSeq(s, a, b)
            /\ \A j \in 1..(k - 1) : (j < a \/ j > b) => s[j] = " "
            /\ v # <<>> => (v[1] # " " /\ v[Len(v)] # " ")

\* the priority chain over the headers that count as given
FollowsIpRule(ip, headers, Given(_)) ==
    IF Given(headers.forwardedFor)
    THEN IsSome(ip) /\ IsTrimmedFirstSegment(ip[1], headers.forwardedFor[1])
    ELSE IF Given(headers.realIp) THEN ip = headers.realIp
    ELSE IF Given(headers.vercelIp) THEN ip = headers.vercelIp
    ELSE ip = None

Present(h) == h # None
PresentNotEmpty(h) == h # None /\ Len(h[1]) > 0

Inserted(r) == reqs[r].pc \in {"insertSettled", "done"} /\ reqs[r].insertOk

\* the claim as stated: a header counts as soon as it is present
C20_AsStated ==
    \A r \in Requests :
        Inserted(r) =>
            FollowsIpRule(RowOf(r).ipAddress, reqs[r].input.headers, Present)

\* amended: a header counts when it is present and not empty
C20_ClientIpPriority ==
    \A r \in Requests :
        /\ Inserted(r) =>
            FollowsIpRule(RowOf(r).ipAddress, reqs[r].input.headers, PresentNotEmpty)
        /\ (Done(r) /\ reqs[r].input.headers = NoHeaders /\ Inserted(r)) =>
            (Status(r) = 200 /\ RowOf(r).ipAddress = None)

C20_Witness ==
    /\ Status(1) = 200
    /\ reqs[1].input.headers.forwardedFor = Some(<<>>)
    /\ reqs[1].input.headers.realIp = Some(Ip2)
    /\ RowOf(1).ipAddress = Some(Ip2)

C20_WitnessList ==
    /\ Status(1) = 200
    /\ reqs[1].input.headers.forwardedFor = Some(Ip1 \o <<" ", ",", " ">> \o Ip2)
    /\ RowOf(1).ipAddress = Some(Ip1)

C20_WitnessNone ==
    /\ Status(1) = 200
    /\ reqs[1].input.headers = NoHeaders
    /\ RowOf(1).ipAddress = None

(***************************************************************************)
(* C13: listingAnalysisOutputSchema accepts a value exactly when riskScore *)
(* is an integer from 0 to 100, detectedPatterns is a list of strings      *)
(* (possibly empty), warnings and recommendations are lists of at least    *)
(* one string, reasoning has at least 50 characters, and priceAnalysis is  *)
(* absent or has both isPriceNormal and priceComment.  An empty warnings   *)
(* list is rejected, an empty detectedPatterns list is accepted.           *)
(***************************************************************************)
IsStringList(j) ==
    j.kind = "array" /\ \A i \in DOMAIN j.items : j.items[i].kind = "string"

StatedOutputConditions(j) ==
    /\ j.riskScore.kind = "number"
    /\ j.riskScore.tenths = 0
    /\ j.riskScore.floor \in 0..100
    /\ IsStringList(j.detectedPatterns)
    /\ IsStringList(j.warnings) /\ j.warnings.items # <<>>
    /\ IsStringList(j.recommendations) /\ j.recommendations.items # <<>>
    /\ Len(j.reasoning.value) >= 50
    /\ \/ j.priceAnalysis.kind = "undefined"
       \/ /\ j.priceAnalysis.kind = "object"
          /\ j.priceAnalysis.isPriceNormal.kind # "undefined"
          /\ j.priceAnalysis.priceComment.kind # "undefined"

OutputSchemaReturned ==
    returned.pc = "returned" /\ returned.fn = "listingAnalysisOutputSchema"

\* the claim as stated: nothing else decides
C13_AsStated ==
    OutputSchemaReturned =>
        (returned.success <=> StatedOutputConditions(callArgs))

\* amended: translatedText must be absent or a string as well
C13_OutputSchemaAccepts ==
    OutputSchemaReturned =>
        /\ returned.success <=>
              /\ StatedOutputConditions(callArgs)
              /\ callArgs.translatedText.kind \in {"undefined", "string"}
        /\ callArgs.warnings = List(<<>>) => ~returned.success

C13_Witness ==
    /\ OutputSchemaReturned
    /\ StatedOutputConditions(callArgs)
    /\ callArgs.detectedPatterns = List(<<>>)
    /\ callArgs.translatedText = Null
    /\ ~returned.success

C13_WitnessAccepted ==
    /\ OutputSchemaReturned
    /\ callArgs.detectedPatterns = List(<<>>)
    /\ callArgs.riskScore = Num(100, 0)
    /\ returned.success

(***************************************************************************)
(* C14: analyzeListingRequestSchema accepts a body exactly when url is a   *)
(* valid URL, text has 1 to 10000 characters, every entry of images is a   *)
(* valid URL, and price is absent or strictly positive.  A text of 10000   *)
(* characters and a price of 0.01 are accepted; an empty text, a text of   *)
(* 10001 characters, a price of 0 and a price of -1 are rejected.          *)
(***************************************************************************)
IsValidUrl(s) == \E n \in 1..Len(s) : n < Len(s) /\ SubSeq(s, 1, n) = HttpsScheme

StatedRequestConditions(b) ==
    /\ IsValidUrl(b.url)
    /\ Len(b.text) \in 1..10000
    /\ b.images # None => \A i \in DOMAIN b.images[1] : IsValidUrl(b.images[1][i])
    /\ b.price # None => b.price[1] > 0

RequestSchemaReturned ==
    returned.pc = "returned" /\ returned.fn = "analyzeListingRequestSchema"

ServiceReturned == returned.pc = "returned"

C15_NotConfigured ==
    ~apiKey =>
        /\ returned.pc \in {"idle", "returned"}
        /\ ServiceReturned =>
            /\ returned.settled = "resolved"
            /\ ~returned.result.success
            /\ returned.result.error = Some("OpenAI API key is not configured")
            /\ returned.externalCalls = 0

C15_Witness ==
    /\ ~apiKey
    /\ ServiceReturned
    /\ returned.fn = "analyzeSeller"
    /\ returned.externalCalls = 0
    /\ returned.result.error = Some("OpenAI API key is not configured")

(***************************************************************************)
(* C16: when the external call throws an Error with message m,             *)
(* analyzeListing returns success false with error equal to m; when it     *)
(* throws a value that is not an Error it returns error 'Unknown error     *)
(* occurred'; in neither case does the exception reach the caller.         *)
(***************************************************************************)
ListingVersions == {"analyzeListing", "analyzeListing.parse"}

CallThrew == ServiceReturned /\ returned.completion.kind \in {"throwError", "throwOther"}

C16_ExceptionsBecomeResults ==
    (CallThrew /\ returned.fn \in ListingVersions) =>
        /\ returned.settled = "resolved"
        /\ ~returned.result.success
        /\ returned.result.error =
              IF returned.completion.kind = "throwError"
              THEN Some(returned.completion.message)
              ELSE Some("Unknown error occurred")

C16_Witness ==
    /\ CallThrew
    /\ returned.fn = "analyzeListing"
    /\ returned.completion.kind = "throwError"
    /\ returned.completion.message = "API rate limit exceeded"
    /\ returned.settled = "resolved"
    /\ returned.result = Result(FALSE, NoAnalysis, Some("API rate limit exceeded"))

(***************************************************************************)
(* C17: when the service responds but its message carries no parsed result *)
(* (parsed is null, whatever the raw content text), analyzeListing returns *)
(* success false with error 'Failed to parse analysis result'.             *)
(***************************************************************************)
RespondedWithoutParsed ==
    /\ ServiceReturned
    /\ returned.completion.kind \in {"noContent", "content"}
    /\ returned.completion.parsed.kind = "null"

C17_NoParsedResult ==
    (RespondedWithoutParsed /\ returned.fn \in ListingVersions) =>
        /\ ~returned.result.success
        /\ returned.result.error = Some("Failed to parse analysis result")

(***************************************************************************)
(* C18: every invocation of analyzeListing performs exactly one call to    *)
(* the external inference service: a single attempt with no retry or       *)
(* backoff, whose failure is terminal for that invocation.                 *)
(***************************************************************************)
ListingReturned == ServiceReturned /\ returned.fn \in ListingVersions

\* the claim as stated: one call, whatever the configuration
C18_AsStated == ListingReturned => returned.externalCalls = 1

CallCountMatches ==
    (returned.pc # "idle" /\ returned.fn \in ListingVersions) =>
        /\ returned.externalCalls <= 1
        /\ ServiceReturned => returned.externalCalls = (IF apiKey THEN 1 ELSE 0)

ReturnIsFinal == ServiceReturned => returned' = returned

\* amended: one call when the API key is configured, none when it is not;
\* never a second call, and nothing happens after the return
C18_SingleAttempt == []CallCountMatches /\ [][ReturnIsFinal]_vars

C18_Witness ==
    /\ ListingReturned
    /\ apiKey
    /\ returned.completion.kind = "throwError"
    /\ returned.externalCalls = 1
    /\ ~returned.result.success

(***************************************************************************)
(* C19: when the service returns content that parses as JSON but fails     *)
(* local validation against listingAnalysisOutputSchema, analyzeListing    *)
(* (the version calling chat.completions.create) still returns success     *)
(* true with the unvalidated parsed payload as data, rather than a         *)
(* failure.                                                                *)
(***************************************************************************)
ParsedButInvalid ==
    /\ ServiceReturned
    /\ returned.fn = "analyzeListing"
    /\ returned.completion.kind = "content"
    /\ returned.completion.json
    /\ ~listingAnalysisOutputSchema(asJson(returned.completion.value))

C19_ValidationFallback ==
    ParsedButInvalid =>
        /\ returned.settled = "resolved"
        /\ returned.result.success
        /\ returned.result.data = returned.completion.value
        /\ returned.result.error = None

C19_Witness ==
    /\ ParsedButInvalid
    /\ returned.completion.value.kind = "object"
    /\ returned.completion.value.warnings = <<>>
    /\ returned.result.success
    /\ returned.result.data.warnings = <<>>

(***************************************************************************)
(* C21: every HTTP method other than POST on /api/analyze/listing responds *)
(* 405 with body {error: 'Method not allowed'} and has no effect: it       *)
(* neither calls the analysis service nor writes to storage.               *)
(***************************************************************************)
NotPost(r) == reqs[r].method \notin {"none", "POST"}

NoEffect(r) ==
    /\ reqs[r].analyzeCalls = 0
    /\ reqs[r].createCalls = 0
    /\ reqs[r].insertAttempts = 0
    /\ reqs[r].rowId = 0
    /\ analyses = <<>>

\* the claim as stated: whatever the method
C21_AsStated ==
    \A r \in Requests :
        NotPost(r) =>
            /\ reqs[r].response = [status |-> 405, error |-> Some("Method not allowed")]
            /\ NoEffect(r)

\* amended: GET, PUT and DELETE, the handlers the route defines
C21_MethodNotAllowed ==
    \A r \in Requests :
        /\ reqs[r].method \in {"GET", "PUT", "DELETE"} =>
            /\ Done(r)
            /\ reqs[r].responses = 1
            /\ reqs[r].response = [status |-> 405, error |-> Some("Method not allowed")]
        /\ NotPost(r) => NoEffect(r)

C21_Witness ==
    /\ reqs[1].method = "DELETE"
    /\ Done(1)
    /\ Status(1) = 405
    /\ NoEffect(1)

(***************************************************************************)
(* C22: the trust level of a seller analysis is derived deterministically  *)
(* from its trust score with the cut points of the risk level: for every   *)
(* seller output accepted as a successful result, trustLevel is 'low' when *)
(* trustScore < 30, 'medium' when 30 <= trustScore < 70 and 'high' when    *)
(* trustScore >= 70.                                                       *)
(***************************************************************************)
SellerSucceeded ==
    /\ returned.pc = "returned"
    /\ returned.fn = "analyzeSeller"
    /\ returned.result.success

C22_TrustLevelFromScore ==
    SellerSucceeded =>
        returned.result.data.trustLevel.value =
            LevelOf(returned.result.data.trustScore.floor)

(***************************************************************************)
(* C23: every POST request terminates with exactly one response whose      *)
(* status is 200, 400 or 500, whatever the outcome of JSON parsing,        *)
(* validation, the external call and the insert; an exception that is      *)
(* neither a validation error nor a JSON syntax error yields 500 with      *)
(* error 'Internal server error'.                                          *)
(***************************************************************************)
IsPost(r) == reqs[r].method = "POST"

OneResponse ==
    \A r \in Requests :
        IsPost(r) =>
            /\ reqs[r].responses = (IF Done(r) THEN 1 ELSE 0)
            /\ Done(r) => Status(r) \in {200, 400, 500}

PostTerminates == \A r \in Requests : IsPost(r) ~> Done(r)

\* request.json() failed with something else than a SyntaxError
UnexpectedInPost(r) == Done(r) /\ IsPost(r) /\ reqs[r].input.json = "otherError"

\* the insert threw
InsertThrew(r) ==
    Done(r) /\ IsPost(r) /\ reqs[r].insertAttempts = 1 /\ ~reqs[r].insertOk

UnexpectedIsInternalError ==
    \A r \in Requests :
        /\ UnexpectedInPost(r) =>
              reqs[r].response = ErrorResponse(500, "Internal server error")
        /\ InsertThrew(r) =>
              reqs[r].response = ErrorResponse(500, "Failed to save analysis results")

SectionOrder ==
    <<"intro", "content", "url", "price", "item", "priceEnd", "images", "request">>

SectionsOf(parts) == [i \in 1..Len(parts) |-> parts[i].section]

HasSection(parts, s) == \E i \in 1..Len(parts) : parts[i].section = s

PositionIn(seq, s) == CHOOSE i \in 1..Len(seq) : seq[i] = s

UserMessageReturned ==
    returned.pc = "returned" /\ returned.fn = "buildUserMessage"

C24_UserMessageSections ==
    UserMessageReturned =>
        LET parts == returned.parts
            p == callArgs
        IN  /\ \A i, j \in 1..Len(parts) :
                  i < j => PositionIn(SectionOrder, parts[i].section)
                             < PositionIn(SectionOrder, parts[j].section)
            /\ HasSection(parts, "content") /\ HasSection(parts, "request")
            /\ parts[PositionIn(SectionsOf(parts), "content")].value = <<p.text>>
            /\ parts[Len(parts)].section = "request"
            /\ HasSection(parts, "url") <=> (p.url # None /\ Len(p.url[1]) > 0)
            /\ HasSection(parts, "price") <=> p.price # None
            /\ HasSection(parts, "priceEnd") <=> p.price # None
            /\ HasSection(parts, "item") => HasSection(parts, "price")
            /\ (p.price # None /\ p.itemName = Some("card")) =>
                  HasSection(parts, "item")
            /\ HasSection(parts, "images") <=>
                  (p.images # None /\ Len(p.images[1]) >= 1)
            /\ HasSection(parts, "images") =>
                  parts[PositionIn(SectionsOf(parts), "images")].value
                      = <<Len(p.images[1])>>

C24_Witness ==
    /\ UserMessageReturned
    /\ callArgs.price = None
    /\ callArgs.itemName = Some("card")
    /\ callArgs.url = Some(ExampleUrl)
    /\ callArgs.images = Some(<<ExampleUrl, ExampleUrl>>)
    /\ SectionsOf(returned.parts) = <<"intro", "content", "url", "images", "request">>

(***************************************************************************)
(* C25: buildSellerAnalysisMessage emits the account-metrics block iff     *)
(* accountAge is present, and the follower, following and post counts      *)
(* appear only inside that block and only when individually present, so    *)
(* counts supplied without an account age are omitted from the prompt.     *)
(***************************************************************************)
SellerMessageReturned ==
    returned.pc = "returned" /\ returned.fn = "buildSellerAnalysisMessage"

\* section s lies between the opening and the end of the metrics block
InsideMetrics(parts, s) ==
    \E a, i, b \in 1..Len(parts) :
        /\ a < i /\ i < b
        /\ parts[a].section = "metrics"
        /\ parts[i].section = s
        /\ parts[b].section = "metricsEnd"

C25_SellerMetricsBlock ==
    SellerMessageReturned =>
        LET parts == returned.parts
            p == callArgs
        IN  /\ HasSection(parts, "metrics") <=> p.accountAge # None
            /\ HasSection(parts, "accountAge") <=> p.accountAge # None
            /\ HasSection(parts, "followers") <=>
                  (p.accountAge # None /\ p.followerCount # None)
            /\ HasSection(parts, "following") <=>
                  (p.accountAge # None /\ p.followingCount # None)
            /\ HasSection(parts, "posts") <=>
                  (p.accountAge # None /\ p.postCount # None)
            /\ \A s \in {"accountAge", "followers", "following", "posts"} :
                  HasSection(parts, s) => InsideMetrics(parts, s)

C25_Witness ==
    /\ SellerMessageReturned
    /\ callArgs.accountAge = None
    /\ callArgs.followerCount = Some(1200)
    /\ callArgs.postCount = Some(5)
    /\ ~HasSection(returned.parts, "followers")
    /\ ~HasSection(returned.parts, "posts")

(***************************************************************************)
(* C26: after any sequence of getOpenAIClient calls, made directly or      *)
(* through the openai.beta and openai.chat getters, at most one client     *)
(* instance has been constructed, and every call returns that same         *)
(* instance.                                                               *)
(***************************************************************************)
ReturnedClients ==
    { returned.log[i].value[1] :
        i \in { j \in 1..Len(returned.log) : returned.log[j].value # None } }

C26_SingleClient ==
    /\ returned.constructed <= 1
    /\ Cardinality(ReturnedClients) <= 1
    /\ ReturnedClients # {} =>
          (returned.constructed = 1 /\ returned.openaiClient # None
              /\ ReturnedClients = {returned.openaiClient[1]})

C26_Witness ==
    /\ Len(returned.log) = 3
    /\ returned.log[1].via = "openai.chat"
    /\ returned.log[2].via = "getOpenAIClient"
    /\ returned.log[3].via = "openai.beta"
    /\ returned.constructed = 1
    /\ \A i \in 1..3 : returned.log[i].value = returned.openaiClient

(***************************************************************************)
(* C27: every payload that satisfies the response-shape constraint sent to *)
(* the service (listingAnalysisJsonSchema) also passes local validation by *)
(* listingAnalysisOutputSchema, so the validation-failure fallback is      *)
(* never taken for a response that conforms to the requested shape.        *)
(***************************************************************************)
C27_ConformingPassesValidation ==
    (returned.pc = "returned" /\ returned.fn = "analyzeListing.validation") =>
        ~returned.fallback

(***************************************************************************)
(* C28: analyzeListing, analyzeSeller and analyzeImage never reject: for   *)
(* every outcome of the external call each invocation resolves to a tagged *)
(* result in which success true implies data is present (not null or       *)
(* undefined) and success false implies an error message is present.       *)
(***************************************************************************)
C28_TaggedResult ==
    ServiceReturned =>
        /\ returned.settled = "resolved"
        /\ returned.result.success => returned.result.data.kind \notin {"null", "undefined"}
        /\ ~returned.result.success => returned.result.error # None

(***************************************************************************)
(* C29: every JSON body that POST /api/analyze/listing returns, success or *)
(* error, is accepted by analysisResponseSchema; in particular every 200   *)
(* body has an integer riskScore in 0..100, a riskLevel in {low, medium,   *)
(* high}, and a priceAnalysis that is either absent or an object.          *)
(***************************************************************************)
C29_ResponsesFitSchema ==
    \A r \in Requests :
        (Done(r) /\ IsPost(r)) =>
            /\ analysisResponseSchema(reqs[r].response)
            /\ Status(r) = 200 =>
                /\ reqs[r].response.data.riskScore \in 0..100
                /\ reqs[r].response.data.riskLevel \in {"low", "medium", "high"}
                /\ reqs[r].response.data.priceAnalysis.kind \in {"undefined", "object"}

(***************************************************************************)
(* C30: in ListingAnalysisForm, after any sequence of submit and reset     *)
(* actions (including a submission started while another is still in       *)
(* flight), result and error are never both set; starting a submission     *)
(* sets isAnalyzing and clears both, and once a submission has completed   *)
(* isAnalyzing is false and exactly one of result or error is set.         *)
(***************************************************************************)
C30_ResultXorError ==
    /\ ~(returned.result # None /\ returned.error # None)
    /\ returned.lastEvent = "submit" =>
          (returned.isAnalyzing /\ returned.result = None /\ returned.error = None)
    /\ returned.lastEvent = "complete" =>
          /\ ~returned.isAnalyzing
          /\ (returned.result # None) # (returned.error # None)

====
